---- MODULE Spec2Model ----
(***************************************************************************)
(* ArbPredict: the execution coordinator (executeArbitrage), the circuit   *)
(* breaker (CircuitBreakerImpl), the WebSocket reconnector and the risk    *)
(* gate (validateRisk), as one state machine.                              *)
(*                                                                         *)
(* JavaScript runs one callback at a time: every action below is the code  *)
(* that runs between two suspension points (await / timer / I/O callback), *)
(* and the actions of different callbacks interleave at those points.      *)
(*                                                                         *)
(* Money and prices are integers in units of 1/10000 dollar, so that the   *)
(* percentages of the source (1 %, 3 %) are exact.                         *)
(***************************************************************************)
EXTENDS Integers, Sequences, FiniteSets, TLC

\* ------------------------------------------------------------------ bounds

\* Executions (executeArbitrage calls) per behaviour.
MaxExecutions == 2
\* Cap on the breaker's two failure counters (unbounded in the code).
MaxFailures == 4
\* Cap on the failures the reconnector adds to consecutiveFailures.
MaxConnectionLosses == 1
\* checkAndExecute cycles per behaviour, and per behaviour of the run that
\* fills the positions map.
MaxCycles == 2
MaxLimitCycles == 12

\* ------------------------------------------------- constants of the source

\* RISK_PARAMS
maxConsecutiveFailures == 3
maxAsymmetricExecutions == 1
\* SLIPPAGE_CONFIG.maxSlippagePct, in percent
maxSlippagePct == 1
\* WEBSOCKET_CONFIG.maxAttempts
maxAttempts == 5
\* RISK_PARAMS, in dollars, percent and contracts
maxExposurePerEvent == 100
maxTotalExposure == 100
maxPositionImbalance == 10
minProfitThreshold == 3
minLiquidityDepth == 50
dailyLossLimit == 20
maxQuantityPerTrade == 50

\* ExecutorConfig as main() sets it: dollars, percent, a count, prices in
\* thousandths of a dollar, a count
startingCapital == 1000
maxPositionSize == 5
maxConcurrentPositions == 10
takeProfitThreshold == 900
stopLossThreshold == 200
minSignalConfidence == 2
\* StrategyConfig.minConfidence
minConfidence == 2
\* CHECK_INTERVAL and the interval of the markets, in minutes
CHECK_INTERVAL == 15
interval == 15

\* Money units per dollar.
Dollar == 100 * 100

NULL == "null"

Platforms == {"polymarket", "kalshi"}

\* type FailureType
FailureType ==
    {"EXECUTION_FAILURE", "ASYMMETRIC_EXECUTION", "CONNECTION_LOST",
     "RATE_LIMIT_EXCEEDED", "DAILY_LOSS_LIMIT"}

\* A pause reason: the text of the source with its interpolated number apart.
Reason(text, n) == [text |-> text, n |-> n]

NoReason == Reason(NULL, 0)

\* Reasons an operator (or another component) passes to pause() itself.
ManualReasons == {Reason("Manual pause", 0)}

VARIABLES
    circuitBreaker,   \* the CircuitBreakerImpl instance (its private fields)
    alerts,           \* types of the alerts the last step handed to alerting.sendCriticalAlert
    attempts,         \* WebSocketReconnector.attempts
    connected,        \* WebSocketReconnector.connected
    rpc,              \* where connect() is: "idle" | "connecting" | "sleeping"
    epc,              \* where executeArbitrage is: "idle" | "validating" | "placing" | "alerting"
    opp,              \* the opportunity of the call in flight
    quantity,         \* its const quantity
    currentSpread,    \* its const currentSpread
    buyResult,        \* settled status of the buy leg's promise
    sellResult,       \* settled status of the sell leg's promise
    orders,           \* FOK orders submitted to the venues
    positions,        \* positions held at the venues (one per filled order)
    executions,       \* what each executeArbitrage call returned
    riskCheck,        \* the RiskCheck of the opportunity the loop is handling
    detected,         \* the last detectArbitrage call: its books and what it returned
    matchScore,       \* the last calculateMatchScore call: its arguments and what it returned
    textScore,        \* the last keywordOverlapScore or tokenOverlapScore call, likewise
    matchResult,      \* the last findBestMatch call: its arguments and what it returned
    cachedMappings,   \* EventMatcher.cachedMappings
    manualMappings,   \* EventMatcher.manualMappings
    eventMappings,    \* the rows of the event_mappings table
    mpc,              \* where the EventMatcher call in flight is: "idle" | "saving" | "removing" | "loading"
    pending,          \* the mapping (or condition id) of the EventMatcher call in flight
    returned,         \* the last findKalshiEquivalent call: its arguments and what it returned
    capital,          \* CryptoExecutor.capital
    cryptoPositions,  \* CryptoExecutor.positions: market slug (its epoch) -> Position
    tradeHistory,     \* CryptoExecutor.tradeHistory
    now,              \* Date.now(), in minutes
    cpc,              \* where the checkAndExecute call in flight is: "idle" | "signal" | "scan"
    sleeping,         \* the caller of checkAndExecute waits on its timer
    signal,           \* the signal of the cycle in flight
    cycles,           \* checkAndExecute calls made
    logged            \* what the last cycle logged when it ended

vars ==
    <<circuitBreaker, alerts, attempts, connected, rpc, epc, opp, quantity,
      currentSpread, buyResult, sellResult, orders, positions, executions,
      riskCheck, detected, matchScore, textScore, matchResult, cachedMappings,
      manualMappings, eventMappings, mpc, pending, returned, capital,
      cryptoPositions, tradeHistory, now, cpc, sleeping, signal, cycles, logged>>

\* The state of the trading loop, the breaker and the reconnector.
tradingVars ==
    <<circuitBreaker, alerts, attempts, connected, rpc, epc, opp, quantity,
      currentSpread, buyResult, sellResult, orders, positions, executions,
      riskCheck>>
detectorVars == <<detected>>
scoringVars == <<matchScore, textScore, matchResult>>
storeVars == <<cachedMappings, manualMappings, eventMappings, mpc, pending, returned>>
matcherVars == <<scoringVars, storeVars>>
cryptoVars ==
    <<capital, cryptoPositions, tradeHistory, now, cpc, sleeping, signal, cycles, logged>>

\* No EventMatcher call is in flight.
NoPending == [call |-> "none"]

breakerVars == <<circuitBreaker, alerts>>
reconnectorVars == <<attempts, connected, rpc>>
executionVars ==
    <<epc, opp, quantity, currentSpread, buyResult, sellResult, orders,
      positions, executions>>
riskVars == <<riskCheck>>

\* --------------------------------------------------------- circuit breaker

\* The breaker together with the alert sink its pause() writes to.
World(cb, al) == [cb |-> cb, alerts |-> al]

\* CircuitBreakerImpl field initialisers
InitialBreaker ==
    [paused |-> FALSE, pauseReason |-> NoReason, pausedAt |-> NULL,
     consecutiveFailures |-> 0, asymmetricExecutions |-> 0]

\* CircuitBreakerImpl.pause(reason)
pause(w, reason) ==
    World([w.cb EXCEPT !.paused = TRUE, !.pauseReason = reason, !.pausedAt = "now"],
          w.alerts \cup {"CIRCUIT_BREAKER"})

\* recordFailure with the consecutive-failure test written > instead of >=.
recordFailure_StrictThreshold(w, type) ==
    LET w1 == World([w.cb EXCEPT !.consecutiveFailures = @ + 1], w.alerts)
        w2 == IF type = "ASYMMETRIC_EXECUTION"
              THEN World([w1.cb EXCEPT !.asymmetricExecutions = @ + 1], w1.alerts)
              ELSE w1
        w3 == IF w2.cb.consecutiveFailures > maxConsecutiveFailures
              THEN pause(w2, Reason("consecutive failures", w2.cb.consecutiveFailures))
              ELSE w2
        w4 == IF w3.cb.asymmetricExecutions >= maxAsymmetricExecutions
              THEN pause(w3, Reason("asymmetric executions - manual review required",
                                    w3.cb.asymmetricExecutions))
              ELSE w3
        w5 == IF type = "DAILY_LOSS_LIMIT"
              THEN pause(w4, Reason("Daily loss limit reached", 0))
              ELSE w4
        w6 == IF type = "CONNECTION_LOST"
              THEN pause(w5, Reason("Connection lost to exchange", 0))
              ELSE w5
    IN  w6

\* recordFailure pausing one failure before the configured count.
recordFailure_EarlyThreshold(w, type) ==
    LET w1 == World([w.cb EXCEPT !.consecutiveFailures = @ + 1], w.alerts)
        w2 == IF type = "ASYMMETRIC_EXECUTION"
              THEN World([w1.cb EXCEPT !.asymmetricExecutions = @ + 1], w1.alerts)
              ELSE w1
        w3 == IF w2.cb.consecutiveFailures >= maxConsecutiveFailures - 1
              THEN pause(w2, Reason("consecutive failures", w2.cb.consecutiveFailures))
              ELSE w2
        w4 == IF w3.cb.asymmetricExecutions >= maxAsymmetricExecutions
              THEN pause(w3, Reason("asymmetric executions - manual review required",
                                    w3.cb.asymmetricExecutions))
              ELSE w3
        w5 == IF type = "DAILY_LOSS_LIMIT"
              THEN pause(w4, Reason("Daily loss limit reached", 0))
              ELSE w4
        w6 == IF type = "CONNECTION_LOST"
              THEN pause(w5, Reason("Connection lost to exchange", 0))
              ELSE w5
    IN  w6

\* CircuitBreakerImpl.recordFailure(type)
recordFailure(w, type) ==
    LET w1 == World([w.cb EXCEPT !.consecutiveFailures = @ + 1], w.alerts)
        w2 == IF type = "ASYMMETRIC_EXECUTION"
              THEN World([w1.cb EXCEPT !.asymmetricExecutions = @ + 1], w1.alerts)
              ELSE w1
        w3 == IF w2.cb.consecutiveFailures >= maxConsecutiveFailures
              THEN pause(w2, Reason("consecutive failures", w2.cb.consecutiveFailures))
              ELSE w2
        w4 == IF w3.cb.asymmetricExecutions >= maxAsymmetricExecutions
              THEN pause(w3, Reason("asymmetric executions - manual review required",
                                    w3.cb.asymmetricExecutions))
              ELSE w3
        w5 == IF type = "DAILY_LOSS_LIMIT"
              THEN pause(w4, Reason("Daily loss limit reached", 0))
              ELSE w4
        w6 == IF type = "CONNECTION_LOST"
              THEN pause(w5, Reason("Connection lost to exchange", 0))
              ELSE w5
    IN  w6

\* recordSuccess that also lifts the pause (an automatic resume).
recordSuccess_AutoResume(w) ==
    World([w.cb EXCEPT !.consecutiveFailures = 0, !.paused = FALSE,
                       !.pauseReason = NoReason, !.pausedAt = NULL],
          w.alerts)

\* CircuitBreakerImpl.recordSuccess()
recordSuccess(w) == World([w.cb EXCEPT !.consecutiveFailures = 0], w.alerts)

\* CircuitBreakerImpl.resume()
resume(w) ==
    World([w.cb EXCEPT !.paused = FALSE, !.pauseReason = NoReason, !.pausedAt = NULL,
                       !.consecutiveFailures = 0, !.asymmetricExecutions = 0],
          w.alerts)

\* CircuitBreakerImpl.isPaused()
isPaused == circuitBreaker.paused

\* CircuitBreakerImpl.getPauseReason()
getPauseReason == circuitBreaker.pauseReason

\* The breaker as a step finds it, with nothing sent to the alert sink yet.
Now == World(circuitBreaker, {})

SetWorld(w) ==
    /\ circuitBreaker' = w.cb
    /\ alerts' = w.alerts

\* A client of the CircuitBreaker interface calls recordFailure(type).
RecordFailure(type) ==
    /\ UNCHANGED <<detectorVars, matcherVars, cryptoVars>>
    /\ circuitBreaker.consecutiveFailures < MaxFailures
    /\ circuitBreaker.asymmetricExecutions < MaxFailures
    /\ SetWorld(recordFailure(Now, type))
    /\ UNCHANGED <<reconnectorVars, executionVars, riskVars>>

\* A client of the CircuitBreaker interface calls recordSuccess().
RecordSuccess ==
    /\ UNCHANGED <<detectorVars, matcherVars, cryptoVars>>
    /\ SetWorld(recordSuccess(Now))
    /\ UNCHANGED <<reconnectorVars, executionVars, riskVars>>

\* A client (ExecutionEngine.pause, an operator) calls pause(reason).
Pause(reason) ==
    /\ UNCHANGED <<detectorVars, matcherVars, cryptoVars>>
    /\ SetWorld(pause(Now, reason))
    /\ UNCHANGED <<reconnectorVars, executionVars, riskVars>>

\* The operator calls resume().
Resume ==
    /\ UNCHANGED <<detectorVars, matcherVars, cryptoVars>>
    /\ SetWorld(resume(Now))
    /\ UNCHANGED <<reconnectorVars, executionVars, riskVars>>

\* ----------------------------------------------------- WebSocket reconnector

\* WebSocketReconnector.connect(), up to its first await: called at start-up
\* or again after a run that gave up.
Connect ==
    /\ UNCHANGED <<detectorVars, matcherVars, cryptoVars>>
    /\ rpc = "idle"
    /\ ~connected
    /\ attempts' = 0
    /\ rpc' = "connecting"
    /\ alerts' = {}
    /\ UNCHANGED <<connected, circuitBreaker, executionVars, riskVars>>

\* establishConnection resolves: the try block of connect().
EstablishSucceeds ==
    /\ UNCHANGED <<detectorVars, matcherVars, cryptoVars>>
    /\ rpc = "connecting"
    /\ connected' = TRUE
    /\ attempts' = 0
    /\ rpc' = "idle"
    /\ alerts' = {}
    /\ UNCHANGED <<circuitBreaker, executionVars, riskVars>>

\* establishConnection rejects: the catch block of connect(), up to its sleep.
EstablishFails ==
    /\ UNCHANGED <<detectorVars, matcherVars, cryptoVars>>
    /\ rpc = "connecting"
    /\ attempts' = attempts + 1
    /\ rpc' = "sleeping"
    /\ alerts' = {}
    /\ UNCHANGED <<connected, circuitBreaker, executionVars, riskVars>>

\* The loop test of connect() written <= instead of <.
SleepEnds_OneMore ==
    /\ UNCHANGED <<detectorVars, matcherVars, cryptoVars>>
    /\ rpc = "sleeping"
    /\ IF attempts <= maxAttempts
       THEN /\ rpc' = "connecting"
            /\ alerts' = {}
            /\ UNCHANGED circuitBreaker
       ELSE /\ circuitBreaker.consecutiveFailures < MaxConnectionLosses
            /\ SetWorld(recordFailure(Now, "CONNECTION_LOST"))
            /\ rpc' = "idle"
    /\ UNCHANGED <<attempts, connected, executionVars, riskVars>>

\* The sleep of connect() ends: the loop test, then either the next attempt or
\* circuitBreaker.recordFailure('CONNECTION_LOST') and return false.
SleepEnds ==
    /\ UNCHANGED <<detectorVars, matcherVars, cryptoVars>>
    /\ rpc = "sleeping"
    /\ IF attempts < maxAttempts
       THEN /\ rpc' = "connecting"
            /\ alerts' = {}
            /\ UNCHANGED circuitBreaker
       ELSE /\ circuitBreaker.consecutiveFailures < MaxConnectionLosses
            /\ SetWorld(recordFailure(Now, "CONNECTION_LOST"))
            /\ rpc' = "idle"
    /\ UNCHANGED <<attempts, connected, executionVars, riskVars>>

\* The heartbeat monitor finds the connection dead: connected = false, then
\* handleDisconnect() calls connect(), which runs to its first await.
HeartbeatTimeout ==
    /\ UNCHANGED <<detectorVars, matcherVars, cryptoVars>>
    /\ rpc = "idle"
    /\ connected
    /\ connected' = FALSE
    /\ attempts' = 0
    /\ rpc' = "connecting"
    /\ alerts' = {}
    /\ UNCHANGED <<circuitBreaker, executionVars, riskVars>>

\* ------------------------------------------------------ opportunity detector

Min(a, b) == IF a < b THEN a ELSE b

\* MIN_PROFIT_THRESHOLD: the minimum profit per contract (0.03), in money units.
MIN_PROFIT_THRESHOLD == (minProfitThreshold * Dollar) \div 100

\* What undefined / 100 evaluates to: not a number, kept apart from every price.
NaN == -1

\* One price level of an order book.
Level(price) == [price |-> price]

\* An order book: the levels of each side, best first. Polymarket quotes in
\* dollars (money units here), Kalshi in cents; prices are whole cents.
OrderBook(bids, asks) == [bids |-> bids, asks |-> asks]

\* polyBook.bids[0]?.price || 0
polyYesBid(polyBook) ==
    IF Len(polyBook.bids) = 0 \/ polyBook.bids[1].price = 0
    THEN 0 ELSE polyBook.bids[1].price

\* polyBook.asks[0]?.price || 1
polyYesAsk(polyBook) ==
    IF Len(polyBook.asks) = 0 \/ polyBook.asks[1].price = 0
    THEN Dollar ELSE polyBook.asks[1].price

\* kalshiBook.bids[0]?.price / 100
kalshiYesBid(kalshiBook) ==
    IF Len(kalshiBook.bids) = 0 THEN NaN
    ELSE kalshiBook.bids[1].price * (Dollar \div 100)

\* kalshiBook.asks[0]?.price / 100
kalshiYesAsk(kalshiBook) ==
    IF Len(kalshiBook.asks) = 0 THEN NaN
    ELSE kalshiBook.asks[1].price * (Dollar \div 100)

\* a < b on JavaScript numbers: false when either side is NaN.
Less(a, b) == a # NaN /\ b # NaN /\ a < b

\* estimateFees(buyPlatform, sellPlatform, buyPrice, sellPrice)
estimateFees(buyPlatform, sellPlatform, buyPrice, sellPrice) ==
    LET takerFee == IF buyPlatform = "polymarket" THEN (buyPrice * 2) \div 100 ELSE 0
        winFee == IF sellPlatform = "polymarket"
                  THEN ((Dollar - sellPrice) * 2) \div 100 ELSE 0
        kalshiFee == IF sellPlatform = "kalshi"
                     THEN Min(((Dollar - sellPrice) * 7) \div 100, (7 * Dollar) \div 100)
                     ELSE 0
    IN  takerFee + winFee + kalshiFee

\* The profit test written >= instead of >.
Qualifies_AtLeast(spread, fees) == spread >= fees + MIN_PROFIT_THRESHOLD

\* if (spread > fees + MIN_PROFIT_THRESHOLD)
Qualifies(spread, fees) == spread > fees + MIN_PROFIT_THRESHOLD

\* The object a case of detectArbitrage returns.
Candidate(mapping, buyPlatform, buyPrice, sellPlatform, sellPrice) ==
    LET spread == sellPrice - buyPrice
        fees == estimateFees(buyPlatform, sellPlatform, buyPrice, sellPrice)
    IN  [eventMapping |-> mapping,
         buyPlatform |-> buyPlatform, buyPrice |-> buyPrice,
         sellPlatform |-> sellPlatform, sellPrice |-> sellPrice,
         grossSpread |-> spread, estimatedFees |-> fees, netProfit |-> spread - fees]

\* The two tests of a case: the prices cross and the spread pays.
Emits(buyPlatform, buyPrice, sellPlatform, sellPrice) ==
    /\ Less(buyPrice, sellPrice)
    /\ Qualifies(sellPrice - buyPrice,
                 estimateFees(buyPlatform, sellPlatform, buyPrice, sellPrice))

\* detectArbitrage(polyBook, kalshiBook, mapping): case 1 (buy on Polymarket,
\* sell on Kalshi), else case 2 (buy on Kalshi, sell on Polymarket), else null.
\* The result ArbitrageOpportunity | null is a set: the opportunity, or empty.
detectArbitrage(polyBook, kalshiBook, mapping) ==
    IF Emits("polymarket", polyYesAsk(polyBook), "kalshi", kalshiYesBid(kalshiBook))
    THEN {Candidate(mapping, "polymarket", polyYesAsk(polyBook),
                    "kalshi", kalshiYesBid(kalshiBook))}
    ELSE IF Emits("kalshi", kalshiYesAsk(kalshiBook), "polymarket", polyYesBid(polyBook))
    THEN {Candidate(mapping, "kalshi", kalshiYesAsk(kalshiBook),
                    "polymarket", polyYesBid(polyBook))}
    ELSE {}

\* Top-of-book prices of the detector's runs: Polymarket in money units,
\* Kalshi in cents.
PolyPrices == {30 * 100, 50 * 100, 80 * 100, 90 * 100}
KalshiPrices == {40, 46, 60, 97}

\* One side of a book: empty, or one level.
Sides(prices) == {<<>>} \cup {<<Level(price)>> : price \in prices}

PolyBooks == {OrderBook(bids, asks) : bids \in Sides(PolyPrices), asks \in Sides(PolyPrices)}
KalshiBooks == {OrderBook(bids, asks) : bids \in Sides(KalshiPrices), asks \in Sides(KalshiPrices)}

\* No detectArbitrage call has been made.
NoDetection ==
    [called |-> FALSE, polyBook |-> OrderBook(<<>>, <<>>),
     kalshiBook |-> OrderBook(<<>>, <<>>), opportunity |-> {}]

\* A detector that takes a cycle without an opportunity as the market having
\* closed: it drops the positions and clears the failure count.
DetectArbitrage_ClearsState(polyBook, kalshiBook) ==
    /\ detected' = [called |-> TRUE, polyBook |-> polyBook, kalshiBook |-> kalshiBook,
                    opportunity |-> detectArbitrage(polyBook, kalshiBook, "E1")]
    /\ IF detected'.opportunity = {}
       THEN /\ circuitBreaker' = [circuitBreaker EXCEPT !.consecutiveFailures = 0]
            /\ positions' = {}
       ELSE UNCHANGED <<circuitBreaker, positions>>
    /\ UNCHANGED <<alerts, attempts, connected, rpc, epc, opp, quantity, currentSpread,
                   buyResult, sellResult, orders, executions, riskCheck>>
    /\ UNCHANGED <<matcherVars, cryptoVars>>

\* A detection cycle calls detectArbitrage on the books of a mapped pair.
DetectArbitrage(polyBook, kalshiBook) ==
    /\ detected' = [called |-> TRUE, polyBook |-> polyBook, kalshiBook |-> kalshiBook,
                    opportunity |-> detectArbitrage(polyBook, kalshiBook, "E1")]
    /\ UNCHANGED <<tradingVars, matcherVars, cryptoVars>>

\* ------------------------------------------------------------ opportunities

\* ArbitrageOpportunity: the fields executeArbitrage and validateRisk read.
Opportunity(event, buyPlatform, buyPrice, sellPrice, netProfit, maxQuantity) ==
    [eventMapping |-> event,
     buyPlatform |-> buyPlatform, buyPrice |-> buyPrice,
     sellPlatform |-> CHOOSE p \in Platforms : p # buyPlatform, sellPrice |-> sellPrice,
     netProfit |-> netProfit, maxQuantity |-> maxQuantity]

NoOpportunity == Opportunity(NULL, "polymarket", 0, 0, 0, 0)

\* The opportunity the detector finds for `mapping` on the given top-of-book
\* prices, with the quantity both books hold.
Detected(mapping, polyBid, polyAsk, kalshiBid, kalshiAsk, maxQuantity) ==
    LET d == CHOOSE x \in detectArbitrage(OrderBook(<<Level(polyBid)>>, <<Level(polyAsk)>>),
                                           OrderBook(<<Level(kalshiBid)>>, <<Level(kalshiAsk)>>),
                                           mapping) : TRUE
    IN  Opportunity(mapping, d.buyPlatform, d.buyPrice, d.sellPrice, d.netProfit, maxQuantity)

\* The opportunities the detector hands over in this model: 50 contracts
\* bought on Polymarket at 0.90 ($45), 20 contracts bought on Kalshi at 0.50
\* ($10), and on a third event 30 contracts bought on Kalshi at 0.50 ($15).
Opportunities ==
    {Detected("E1", 88 * 100, 90 * 100, 97, 99, 50),
     Detected("E2", 56 * 100, 58 * 100, 48, 50, 20),
     Detected("E3", 56 * 100, 58 * 100, 48, 50, 30)}

\* What validateCurrentSpread may answer for `o`: the least spread that is
\* within the slippage allowance of its netProfit, and one unit below that.
Spreads(o) ==
    LET least == (o.netProfit * (100 - maxSlippagePct) + 99) \div 100
    IN  {least - 1, least}

\* calculateOptimalQuantity(opp) is not in the source: the quantity the book holds.
Quantities(o) == {o.maxQuantity}

\* ---------------------------------------------------------------- positions

RECURSIVE Value(_)
\* Sum of quantity * price over a set of positions.
Value(ps) ==
    IF ps = {} THEN 0
    ELSE LET p == CHOOSE x \in ps : TRUE
         IN  p.quantity * p.price + Value(ps \ {p})

\* positionManager.getTotalExposure(): the capital paid for the contracts bought.
getTotalExposure == Value({p \in positions : p.leg = "buy"})

\* positionManager.getEventExposure(eventId)
getEventExposure(eventId) ==
    Value({p \in positions : p.leg = "buy" /\ p.eventMapping = eventId})

\* positionManager.getNetInventory(eventId).imbalanceUsd: the value of the
\* event's positions whose other leg did not fill.
imbalanceUsd(eventId) ==
    Value({p \in positions :
             /\ p.eventMapping = eventId
             /\ ~\E q \in positions : q.exec = p.exec /\ q.leg # p.leg})

\* ---------------------------------------------------------------- risk gate

\* No opportunity is between the risk gate and the coordinator.
NoRiskCheck ==
    [approved |-> FALSE, reasons |-> <<>>, warnings |-> <<>>, suggestedQuantity |-> 0,
     opp |-> NoOpportunity, quantity |-> 0, dailyPnL |-> 0, checked |-> FALSE]

\* The total-exposure test without the trade it is asked about.
ExceedsTotalExposure_CurrentOnly(o, q) == getTotalExposure > maxTotalExposure * Dollar

\* currentExposure + (quantity * opp.buyPrice) > RISK_PARAMS.maxTotalExposure
ExceedsTotalExposure(o, q) == getTotalExposure + q * o.buyPrice > maxTotalExposure * Dollar

\* The daily-loss test comparing against the limit without its sign.
DailyLossReached_Unsigned(dailyPnL) == dailyPnL > dailyLossLimit * Dollar

\* dailyPnL < -RISK_PARAMS.dailyLossLimit
DailyLossReached(dailyPnL) == dailyPnL < -(dailyLossLimit * Dollar)

\* validateRisk(opp, quantity), with dailyPnL what positionManager.getDailyPnL()
\* answers; the result keeps its arguments and that figure beside it.
validateRisk(o, q, dailyPnL) ==
    LET c1 == IF ExceedsTotalExposure(o, q)
              THEN <<"Total exposure would exceed limit">> ELSE <<>>
        c2 == IF getEventExposure(o.eventMapping) + q * o.buyPrice > maxExposurePerEvent * Dollar
              THEN <<"Event exposure would exceed limit">> ELSE <<>>
        c3 == IF imbalanceUsd(o.eventMapping) > maxPositionImbalance * Dollar
              THEN <<"Position imbalance exceeds limit">> ELSE <<>>
        c4 == IF DailyLossReached(dailyPnL)
              THEN <<"Daily loss limit reached">> ELSE <<>>
        c5 == IF o.netProfit * 100 < minProfitThreshold * o.buyPrice
              THEN <<"Net profit below threshold">> ELSE <<>>
        checks == c1 \o c2 \o c3 \o c4 \o c5
        warnings == IF o.maxQuantity < minLiquidityDepth
                    THEN <<"Low liquidity">> ELSE <<>>
    IN  [approved |-> Len(checks) = 0, reasons |-> checks, warnings |-> warnings,
         suggestedQuantity |-> Min(q, maxQuantityPerTrade),
         opp |-> o, quantity |-> q, dailyPnL |-> dailyPnL, checked |-> TRUE]

\* Daily PnL figures the position manager may report: inside the limit, on it
\* and beyond it.
DailyPnLValues == {0, -(dailyLossLimit * Dollar), -(dailyLossLimit * Dollar) - 1}

\* The coordinating loop takes the next candidate and asks the risk gate.
ValidateRisk(o, q, dailyPnL) ==
    /\ UNCHANGED <<detectorVars, matcherVars, cryptoVars>>
    /\ epc = "idle"
    /\ ~riskCheck.checked
    /\ riskCheck' = validateRisk(o, q, dailyPnL)
    /\ alerts' = {}
    /\ UNCHANGED <<circuitBreaker, reconnectorVars, executionVars>>

\* A rejected opportunity is dropped.
DropOpportunity ==
    /\ UNCHANGED <<detectorVars, matcherVars, cryptoVars>>
    /\ riskCheck.checked
    /\ ~riskCheck.approved
    /\ riskCheck' = NoRiskCheck
    /\ alerts' = {}
    /\ UNCHANGED <<circuitBreaker, reconnectorVars, executionVars>>

\* ------------------------------------------------- execution coordinator

\* interface ExecutionResult, as the return statements of executeArbitrage fill it
Result(success, buyExecution, sellExecution, errors, circuitBreakerTriggered) ==
    [success |-> success, buyExecution |-> buyExecution, sellExecution |-> sellExecution,
     errors |-> errors, circuitBreakerTriggered |-> circuitBreakerTriggered]

\* The number of the executeArbitrage call in flight (or of the next one).
ThisExec == Len(executions) + 1

\* buyOrder built as a plain limit order.
buyOrder_Limit(o, q) ==
    [exec |-> ThisExec, leg |-> "buy", platform |-> o.buyPlatform,
     eventMapping |-> o.eventMapping,
     orderType |-> "LIMIT", price |-> o.buyPrice, quantity |-> q]

\* const buyOrder: FOKOrderParams
buyOrder(o, q) ==
    [exec |-> ThisExec, leg |-> "buy", platform |-> o.buyPlatform,
     eventMapping |-> o.eventMapping,
     orderType |-> "FOK", price |-> o.buyPrice, quantity |-> q]

\* const sellOrder: FOKOrderParams
sellOrder(o, q) ==
    [exec |-> ThisExec, leg |-> "sell", platform |-> o.sellPlatform,
     eventMapping |-> o.eventMapping,
     orderType |-> "FOK", price |-> o.sellPrice, quantity |-> q]

\* The venue's answer to an order: a Fill-or-Kill order fills completely or
\* not at all; any other order type may fill in part.
FillQuantities(order) ==
    IF order.orderType = "FOK" THEN {order.quantity} ELSE 1..order.quantity

\* The order of a leg of the call in flight.
OrderOf(leg) == CHOOSE x \in orders : x.exec = ThisExec /\ x.leg = leg

\* The position a fill of `order` for `filled` contracts creates.
Position(order, filled) ==
    [exec |-> order.exec, leg |-> order.leg, platform |-> order.platform,
     eventMapping |-> order.eventMapping, price |-> order.price,
     quantity |-> filled]

\* The spread test with the allowance itself as the factor: maxSlippagePct
\* in place of (1 - maxSlippagePct).
SpreadDeteriorated_SlippageOnly(spread, o) == spread * 100 < o.netProfit * maxSlippagePct

\* The test of the pre-flight abort:
\* currentSpread < opp.netProfit * (1 - SLIPPAGE_CONFIG.maxSlippagePct)
SpreadDeteriorated(spread, o) == spread * 100 < o.netProfit * (100 - maxSlippagePct)

\* The record of a returned call.
Returned(o, spread, placed, buy, sell, result) ==
    [opp |-> o, currentSpread |-> spread, ordersPlaced |-> placed,
     buyResult |-> buy, sellResult |-> sell, result |-> result]

\* executeArbitrage returns `result`: its locals are gone.
Return(spread, placed, result) ==
    /\ executions' = Append(executions, Returned(opp, spread, placed, buyResult, sellResult, result))
    /\ epc' = "idle"
    /\ opp' = NoOpportunity
    /\ quantity' = 0
    /\ currentSpread' = 0
    /\ buyResult' = NULL
    /\ sellResult' = NULL

\* The loop hands an approved opportunity to executeArbitrage(opp), which runs
\* to its first await: the isPaused() check, then validateCurrentSpread(opp).
ExecuteArbitrage ==
    /\ UNCHANGED <<detectorVars, matcherVars, cryptoVars>>
    /\ epc = "idle"
    /\ riskCheck.checked
    /\ riskCheck.approved
    /\ Len(executions) < MaxExecutions
    /\ riskCheck' = NoRiskCheck
    /\ alerts' = {}
    /\ IF isPaused
       THEN /\ executions' = Append(executions,
                                    Returned(riskCheck.opp, 0, FALSE, NULL, NULL,
                                             Result(FALSE, NULL, NULL, "Circuit breaker active", TRUE)))
            /\ UNCHANGED <<epc, opp>>
       ELSE /\ epc' = "validating"
            /\ opp' = riskCheck.opp
            /\ UNCHANGED executions
    /\ UNCHANGED <<circuitBreaker, reconnectorVars, quantity, currentSpread,
                   buyResult, sellResult, orders, positions>>

\* validateCurrentSpread answers `spread`: the spread test, then either the
\* abort or both FOK orders handed to the venues (Promise.allSettled).
SpreadValidated(spread) ==
    /\ UNCHANGED <<detectorVars, matcherVars, cryptoVars>>
    /\ epc = "validating"
    /\ alerts' = {}
    /\ IF SpreadDeteriorated(spread, opp)
       THEN /\ Return(spread, FALSE,
                      Result(FALSE, NULL, NULL, "Spread deteriorated below threshold", FALSE))
            /\ UNCHANGED orders
       ELSE \E q \in Quantities(opp) :
            /\ orders' = orders \cup {buyOrder(opp, q), sellOrder(opp, q)}
            /\ quantity' = q
            /\ currentSpread' = spread
            /\ buyResult' = "pending"
            /\ sellResult' = "pending"
            /\ epc' = "placing"
            /\ UNCHANGED <<opp, executions>>
    /\ UNCHANGED <<circuitBreaker, reconnectorVars, riskVars, positions>>

\* The buy venue answers: executeFOKOrder(opp.buyPlatform, buyOrder) settles.
BuyLegSettles ==
    /\ UNCHANGED <<detectorVars, matcherVars, cryptoVars>>
    /\ epc = "placing"
    /\ buyResult = "pending"
    /\ alerts' = {}
    /\ \/ /\ buyResult' = "rejected"
          /\ UNCHANGED positions
       \/ \E filled \in FillQuantities(OrderOf("buy")) :
          /\ buyResult' = "fulfilled"
          /\ positions' = positions \cup {Position(OrderOf("buy"), filled)}
    /\ UNCHANGED <<circuitBreaker, reconnectorVars, riskVars, epc, opp, quantity,
                   currentSpread, sellResult, orders, executions>>

\* The sell venue answers: executeFOKOrder(opp.sellPlatform, sellOrder) settles.
SellLegSettles ==
    /\ UNCHANGED <<detectorVars, matcherVars, cryptoVars>>
    /\ epc = "placing"
    /\ sellResult = "pending"
    /\ alerts' = {}
    /\ \/ /\ sellResult' = "rejected"
          /\ UNCHANGED positions
       \/ \E filled \in FillQuantities(OrderOf("sell")) :
          /\ sellResult' = "fulfilled"
          /\ positions' = positions \cup {Position(OrderOf("sell"), filled)}
    /\ UNCHANGED <<circuitBreaker, reconnectorVars, riskVars, epc, opp, quantity,
                   currentSpread, buyResult, orders, executions>>

\* A FOK order whose timeout is not enforced: the leg stays pending.
BuyLegTimesOut_NotEnforced ==
    /\ epc = "placing"
    /\ buyResult = "pending"
    /\ UNCHANGED vars

\* timeoutMs of the buy order passes with no answer from the venue:
\* executeFOKOrder rejects, the leg counts as rejected.
BuyLegTimesOut ==
    /\ UNCHANGED <<detectorVars, matcherVars, cryptoVars>>
    /\ epc = "placing"
    /\ buyResult = "pending"
    /\ buyResult' = "rejected"
    /\ alerts' = {}
    /\ UNCHANGED <<circuitBreaker, reconnectorVars, riskVars, epc, opp, quantity,
                   currentSpread, sellResult, orders, positions, executions>>

\* timeoutMs of the sell order passes with no answer from the venue.
SellLegTimesOut ==
    /\ UNCHANGED <<detectorVars, matcherVars, cryptoVars>>
    /\ epc = "placing"
    /\ sellResult = "pending"
    /\ sellResult' = "rejected"
    /\ alerts' = {}
    /\ UNCHANGED <<circuitBreaker, reconnectorVars, riskVars, epc, opp, quantity,
                   currentSpread, buyResult, orders, positions, executions>>

\* if (buyResult.status === 'fulfilled' && sellResult.status === 'fulfilled')
BothFulfilled == buyResult = "fulfilled" /\ sellResult = "fulfilled"

\* The both-rejected test written with || instead of &&.
BothRejected_Either == buyResult = "rejected" \/ sellResult = "rejected"

\* if (buyResult.status === 'rejected' && sellResult.status === 'rejected')
BothRejected == buyResult = "rejected" /\ sellResult = "rejected"

\* What the both-filled branch does to the breaker before it returns: nothing.
AfterBothFilled(w) == w

\* The both-rejected branch reporting the no-fill to the breaker as a failure.
AfterBothRejected_RecordFailure(w) == recordFailure(w, "EXECUTION_FAILURE")

\* What the both-rejected branch does to the breaker before it returns: nothing.
AfterBothRejected(w) == w

\* The asymmetric branch reporting a failure to the breaker instead of pausing it.
AsymmetricPause_RecordOnly(w) == recordFailure(w, "EXECUTION_FAILURE")

\* circuitBreaker.pause('Asymmetric FOK execution')
AsymmetricPause(w) == pause(w, Reason("Asymmetric FOK execution", 0))

\* The asymmetric branch closing the filled leg with an order of its own.
AsymmetricOrders_Unwind ==
    {[exec |-> ThisExec, leg |-> "unwind",
      platform |-> IF buyResult = "fulfilled" THEN opp.buyPlatform ELSE opp.sellPlatform,
      eventMapping |-> opp.eventMapping, orderType |-> "FOK",
      price |-> IF buyResult = "fulfilled" THEN opp.buyPrice ELSE opp.sellPrice,
      quantity |-> quantity]}

\* Orders the asymmetric branch places: none.
AsymmetricOrders == {}

\* Both promises have settled: the code after Promise.allSettled, up to the
\* return of the both-filled and both-rejected branches or to the await of
\* the asymmetric branch.
Resolve ==
    /\ UNCHANGED <<detectorVars, matcherVars, cryptoVars>>
    /\ epc = "placing"
    /\ buyResult # "pending"
    /\ sellResult # "pending"
    /\ IF BothFulfilled
       THEN /\ SetWorld(AfterBothFilled(Now))
            /\ Return(currentSpread, TRUE, Result(TRUE, "filled", "filled", NULL, FALSE))
            /\ UNCHANGED orders
       ELSE IF BothRejected
       THEN /\ Return(currentSpread, TRUE,
                      Result(FALSE, NULL, NULL,
                             "Both FOK orders rejected - opportunity expired", FALSE))
            /\ SetWorld(AfterBothRejected(Now))
            /\ UNCHANGED orders
       ELSE /\ LET w == AsymmetricPause(Now)
               IN  /\ circuitBreaker' = w.cb
                   /\ alerts' = w.alerts \cup {"ASYMMETRIC_EXECUTION"}
            /\ orders' = orders \cup AsymmetricOrders
            /\ epc' = "alerting"
            /\ UNCHANGED <<opp, quantity, currentSpread, buyResult, sellResult, executions>>
    /\ UNCHANGED <<reconnectorVars, riskVars, positions>>

\* alerting.sendCriticalAlert resolves: the asymmetric branch returns.
AlertSent ==
    /\ UNCHANGED <<detectorVars, matcherVars, cryptoVars>>
    /\ epc = "alerting"
    /\ Return(currentSpread, TRUE,
              Result(FALSE,
                     IF buyResult = "fulfilled" THEN "filled" ELSE NULL,
                     IF sellResult = "fulfilled" THEN "filled" ELSE NULL,
                     "Asymmetric execution - circuit breaker triggered", TRUE))
    /\ alerts' = {}
    /\ UNCHANGED <<circuitBreaker, reconnectorVars, riskVars, orders, positions>>

\* The state of the specification's machine that a returned result stands for.
ExecutionState(result) ==
    CASE result.success -> "BOTH_FILLED"
      [] result.errors = "Both FOK orders rejected - opportunity expired" -> "BOTH_REJECTED"
      [] result.errors = "Asymmetric execution - circuit breaker triggered" -> "ASYMMETRIC"
      [] result.errors \in {"Circuit breaker active", "Spread deteriorated below threshold"}
           -> "ABORTED"
      [] OTHER -> "PENDING"

\* ------------------------------------------------------------ exact numbers

RECURSIVE GCD(_, _)
\* Greatest common divisor of two naturals.
GCD(a, b) == IF b = 0 THEN a ELSE GCD(b, a % b)

\* A score: the JavaScript number n / d held exactly, in lowest terms.
Rat(n, d) == LET g == GCD(n, d) IN [n |-> n \div g, d |-> d \div g]

Zero == Rat(0, 1)
One == Rat(1, 1)

\* a + b and a * b on scores
RAdd(a, b) == Rat(a.n * b.d + b.n * a.d, a.d * b.d)
RMul(a, b) == Rat(a.n * b.n, a.d * b.d)

\* a < b and a >= b on scores
RLess(a, b) == a.n * b.d < b.n * a.d
RGeq(a, b) == ~RLess(a, b)

\* A decimal literal of the source with two places: 0.75 is Pct(75).
Pct(p) == Rat(p, 100)

\* -------------------------------------------------------------------- texts

\* A text is a sequence of characters (one-character strings).
UpperCase == <<"A", "B", "C", "D", "E", "F", "G", "H", "I", "J", "K", "L", "M", "N", "O", "P",
        "Q", "R", "S", "T", "U", "V", "W", "X", "Y", "Z">>
LowerCase == <<"a", "b", "c", "d", "e", "f", "g", "h", "i", "j", "k", "l", "m", "n", "o", "p",
        "q", "r", "s", "t", "u", "v", "w", "x", "y", "z">>
Digits == <<"0", "1", "2", "3", "4", "5", "6", "7", "8", "9">>

Range(seq) == {seq[i] : i \in DOMAIN seq}

\* \s of the regular expressions, and what trim() removes
WhiteSpace == {" ", "\t", "\n"}

\* \w of the regular expressions
WordChars == Range(UpperCase) \cup Range(LowerCase) \cup Range(Digits) \cup {"_"}

\* String.prototype.toLowerCase
toLowerCase(text) ==
    [i \in DOMAIN text |->
        IF text[i] \in Range(UpperCase)
        THEN LowerCase[CHOOSE k \in DOMAIN UpperCase : UpperCase[k] = text[i]]
        ELSE text[i]]

\* String.prototype.trim
trim(text) ==
    LET kept == {i \in DOMAIN text : text[i] \notin WhiteSpace}
    IN  IF kept = {} THEN <<>>
        ELSE SubSeq(text,
                    CHOOSE i \in kept : \A k \in kept : i <= k,
                    CHOOSE j \in kept : \A k \in kept : k <= j)

\* String.prototype.includes
includes(text, part) ==
    \E i \in 1..(Len(text) - Len(part) + 1) : SubSeq(text, i, i + Len(part) - 1) = part

RECURSIVE SumOf(_, _)
\* The sum of the function f over the set keys.
SumOf(f, keys) ==
    IF keys = {} THEN 0
    ELSE LET key == CHOOSE k \in keys : TRUE IN f[key] + SumOf(f, keys \ {key})

\* ------------------------------------------------- semantic keyword matching

\* interface KeywordGroup; weights in hundredths
KeywordGroup(canonical, synonyms, weight) ==
    [canonical |-> canonical, synonyms |-> synonyms, weight |-> weight]

POLITICAL_KEYWORDS ==
    <<KeywordGroup("trump",
                   <<<<"d", "o", "n", "a", "l", "d", " ", "t", "r", "u", "m", "p">>, <<"t",
                           "r", "u", "m", "p">>, <<"d", " ", "t", "r", "u", "m", "p">>, <<"p",
                                   "r", "e", "s", "i", "d", "e", "n", "t", " ", "t", "r", "u",
                                           "m", "p">>,
                     <<"d", "o", "n", "a", "l", "d", " ", "j", " ", "t", "r", "u", "m",
                             "p">>, <<"d", "j", "t">>>>, 100),
      KeywordGroup("biden",
                   <<<<"j", "o", "e", " ", "b", "i", "d", "e", "n">>, <<"b", "i", "d", "e",
                           "n">>, <<"p", "r", "e", "s", "i", "d", "e", "n", "t", " ", "b",
                                   "i", "d", "e", "n">>, <<"j", "o", "s", "e", "p", "h", " ",
                                           "b", "i", "d", "e", "n">>>>, 100),
      KeywordGroup("republican",
                   <<<<"r", "e", "p", "u", "b", "l", "i", "c", "a", "n">>, <<"g", "o",
                           "p">>, <<"r", " ", "c", "a", "n", "d", "i", "d", "a", "t",
                                   "e">>, <<"r", "e", "p", "u", "b", "l", "i", "c", "a", "n",
                                           " ", "n", "o", "m", "i", "n", "e", "e">>,
                     <<"r", "e", "p", "u", "b", "l", "i", "c", "a", "n", " ", "c", "a", "n",
                             "d", "i", "d", "a", "t", "e">>>>, 90),
      KeywordGroup("democrat",
                   <<<<"d", "e", "m", "o", "c", "r", "a", "t">>, <<"d", "e", "m", "o", "c",
                           "r", "a", "t", "i", "c">>, <<"d", " ", "c", "a", "n", "d", "i",
                                   "d", "a", "t", "e">>, <<"d", "e", "m", "o", "c", "r", "a",
                                           "t", "i", "c", " ", "n", "o", "m", "i", "n", "e", "e">>,
                     <<"d", "e", "m", "o", "c", "r", "a", "t", "i", "c", " ", "c", "a", "n",
                             "d", "i", "d", "a", "t", "e">>>>, 90),
      KeywordGroup("presidential_election",
                   <<<<"p", "r", "e", "s", "i", "d", "e", "n", "t", "i", "a", "l", " ", "e",
                           "l", "e", "c", "t", "i", "o", "n">>, <<"p", "r", "e", "s", "i",
                                   "d", "e", "n", "t", " ", "e", "l", "e", "c", "t", "i", "o",
                                           "n">>, <<"p", "o", "t", "u", "s">>,
                     <<"p", "r", "e", "s", "i", "d", "e", "n", "c", "y">>, <<"p", "r", "e",
                             "s", "i", "d", "e", "n", "t", "i", "a", "l", " ", "r", "a", "c",
                                     "e">>>>, 95),
      KeywordGroup("win_election",
                   <<<<"w", "i", "n">>, <<"w", "i", "n", "s">>, <<"v", "i", "c", "t", "o",
                           "r", "y">>, <<"e", "l", "e", "c", "t", "e", "d">>, <<"b", "e", "c",
                                   "o", "m", "e", "s", " ", "p", "r", "e", "s", "i", "d", "e",
                                           "n", "t">>>>, 85),
      KeywordGroup("2024_election",
                   <<<<"2", "0", "2", "4">>, <<"2", "0", "2", "4", " ", "e", "l", "e", "c",
                           "t", "i", "o", "n">>, <<"n", "o", "v", "e", "m", "b", "e", "r",
                                   " ", "2", "0", "2", "4">>, <<"1", "1", "/", "2", "0", "2",
                                           "4">>>>, 90)>>

CRYPTO_KEYWORDS ==
    <<KeywordGroup("bitcoin", <<<<"b", "i", "t", "c", "o", "i", "n">>, <<"b", "t", "c">>>>, 100),
      KeywordGroup("ethereum", <<<<"e", "t", "h", "e", "r", "e", "u", "m">>, <<"e", "t",
              "h">>, <<"e", "t", "h", "e", "r">>>>, 100),
      KeywordGroup("price_above",
                   <<<<"a", "b", "o", "v", "e">>, <<"o", "v", "e", "r">>, <<"e", "x", "c",
                           "e", "e", "d">>, <<"s", "u", "r", "p", "a", "s", "s">>, <<"r", "e",
                                   "a", "c", "h">>, <<"h", "i", "t">>,
                     <<"t", "r", "a", "d", "e", " ", "a", "b", "o", "v", "e">>, <<"c", "l",
                             "o", "s", "e", " ", "a", "b", "o", "v", "e">>>>, 90),
      KeywordGroup("price_below",
                   <<<<"b", "e", "l", "o", "w">>, <<"u", "n", "d", "e", "r">>, <<"f", "a",
                           "l", "l", " ", "b", "e", "l", "o", "w">>, <<"d", "r", "o", "p",
                                   " ", "b", "e", "l", "o", "w">>, <<"t", "r", "a", "d", "e",
                                           " ", "b", "e", "l", "o", "w">>>>, 90),
      KeywordGroup("end_of_year",
                   <<<<"e", "n", "d", " ", "o", "f", " ", "y", "e", "a", "r">>, <<"e", "o",
                           "y">>, <<"d", "e", "c", "e", "m", "b", "e", "r">>, <<"d", "e",
                                   "c">>, <<"y", "e", "a", "r", " ", "e", "n", "d">>,
                     <<"e", "n", "d", " ", "o", "f", " ", "2", "0", "2", "4">>, <<"e", "n",
                             "d", " ", "o", "f", " ", "2", "0", "2", "5">>>>, 85)>>

\* extractKeywords matching the text as it is written.
extractKeywords_CaseSensitive(text, keywordGroups) ==
    LET hit == {g \in DOMAIN keywordGroups :
                   \E k \in DOMAIN keywordGroups[g].synonyms :
                       includes(text, keywordGroups[g].synonyms[k])}
        names == {keywordGroups[g].canonical : g \in hit}
    IN  [name \in names |->
            LET weights == {keywordGroups[g].weight :
                              g \in {h \in hit : keywordGroups[h].canonical = name}}
            IN  CHOOSE w \in weights : \A v \in weights : v <= w]

\* extractKeywords(text, keywordGroups): the Map from canonical keyword to
\* weight, as the function from the canonical names found to their weights.
extractKeywords(text, keywordGroups) ==
    LET normalized == toLowerCase(text)
        hit == {g \in DOMAIN keywordGroups :
                   \E k \in DOMAIN keywordGroups[g].synonyms :
                       includes(normalized, keywordGroups[g].synonyms[k])}
        names == {keywordGroups[g].canonical : g \in hit}
    IN  [name \in names |->
            LET weights == {keywordGroups[g].weight :
                              g \in {h \in hit : keywordGroups[h].canonical = name}}
            IN  CHOOSE w \in weights : \A v \in weights : v <= w]

\* keywordOverlapScore(text1, text2, keywordGroups)
keywordOverlapScore(text1, text2, keywordGroups) ==
    LET keywords1 == extractKeywords(text1, keywordGroups)
        keywords2 == extractKeywords(text2, keywordGroups)
        allKeys == DOMAIN keywords1 \cup DOMAIN keywords2
        weight1(key) == IF key \in DOMAIN keywords1 THEN keywords1[key] ELSE 0
        weight2(key) == IF key \in DOMAIN keywords2 THEN keywords2[key] ELSE 0
        inBoth == [key \in allKeys |->
                      IF weight1(key) > 0 /\ weight2(key) > 0
                      THEN Min(weight1(key), weight2(key)) ELSE 0]
        inEither == [key \in allKeys |->
                        IF weight1(key) > weight2(key) THEN weight1(key) ELSE weight2(key)]
        intersectionWeight == SumOf(inBoth, allKeys)
        unionWeight == SumOf(inEither, allKeys)
    IN  IF DOMAIN keywords1 = {} /\ DOMAIN keywords2 = {} THEN Zero
        ELSE IF unionWeight > 0 THEN Rat(intersectionWeight, unionWeight) ELSE Zero

\* ---------------------------------------------------------- token matching

STOPWORDS ==
    {<<"t", "h", "e">>, <<"a">>, <<"a", "n">>, <<"a", "n", "d">>, <<"o", "r">>, <<"b", "u",
            "t">>, <<"i", "n">>, <<"o", "n">>, <<"a", "t">>,
     <<"t", "o">>, <<"f", "o", "r">>, <<"o", "f">>, <<"w", "i", "t", "h">>, <<"b",
             "y">>, <<"f", "r", "o", "m">>, <<"w", "i", "l", "l">>, <<"b", "e">>,
     <<"i", "s">>, <<"a", "r", "e">>, <<"w", "a", "s">>, <<"w", "e", "r", "e">>, <<"h", "a",
             "v", "e">>, <<"h", "a", "s">>, <<"h", "a", "d">>, <<"d", "o">>,
     <<"d", "o", "e", "s">>, <<"d", "i", "d">>, <<"c", "a", "n">>, <<"c", "o", "u", "l",
             "d">>, <<"w", "o", "u", "l", "d">>, <<"s", "h", "o", "u", "l", "d">>, <<"m", "a",
                     "y">>,
     <<"m", "i", "g", "h", "t">>, <<"m", "u", "s", "t">>}

\* tokenize(text): lower case, punctuation to spaces, split on white space,
\* tokens of more than two characters that are not stopwords.
tokenize(text) ==
    LET lower == toLowerCase(text)
        spaced == [i \in DOMAIN lower |->
                      IF lower[i] \in WordChars \cup WhiteSpace THEN lower[i] ELSE " "]
        n == Len(spaced)
        pieces == {SubSeq(spaced, i, j) : <<i, j>> \in
                      {<<a, b>> \in (1..n) \X (1..n) :
                          /\ a <= b
                          /\ \A k \in a..b : spaced[k] \notin WhiteSpace
                          /\ a = 1 \/ spaced[a - 1] \in WhiteSpace
                          /\ b = n \/ spaced[b + 1] \in WhiteSpace}}
    IN  {token \in pieces : Len(token) > 2 /\ token \notin STOPWORDS}

\* The shared tokens as a share of the tokens of the first text.
tokenOverlapScore_OverFirst(text1, text2) ==
    LET tokens1 == tokenize(text1)
        tokens2 == tokenize(text2)
    IN  IF tokens1 = {} /\ tokens2 = {} THEN One
        ELSE IF tokens1 = {} \/ tokens2 = {} THEN Zero
        ELSE Rat(Cardinality(tokens1 \cap tokens2), Cardinality(tokens1))

\* tokenOverlapScore(text1, text2)
tokenOverlapScore(text1, text2) ==
    LET tokens1 == tokenize(text1)
        tokens2 == tokenize(text2)
    IN  IF tokens1 = {} /\ tokens2 = {} THEN One
        ELSE IF tokens1 = {} \/ tokens2 = {} THEN Zero
        ELSE Rat(Cardinality(tokens1 \cap tokens2), Cardinality(tokens1 \cup tokens2))

\* ------------------------------------------------------- fuzzy similarity

RECURSIVE FillRow(_, _, _, _)
\* The inner loop of levenshteinDistance for one character of s1: `row` holds
\* the new costs of the columns done so far, `costs` the previous row.
FillRow(row, costs, ch, s2) ==
    IF Len(row) = Len(costs) THEN row
    ELSE LET j == Len(row)
             newValue == IF ch # s2[j]
                         THEN Min(Min(costs[j], row[j]), costs[j + 1]) + 1
                         ELSE costs[j]
         IN  FillRow(Append(row, newValue), costs, ch, s2)

RECURSIVE LevenshteinRows(_, _, _, _)
\* The outer loop of levenshteinDistance from row i on (the test of costs has
\* each row evaluated before the next one is begun).
LevenshteinRows(costs, s1, s2, i) ==
    IF i > Len(s1) \/ Len(costs) = 0 THEN costs[Len(s2) + 1]
    ELSE LevenshteinRows(FillRow(<<i>>, costs, s1[i], s2), s1, s2, i + 1)

\* levenshteinDistance(s1, s2)
levenshteinDistance(s1, s2) ==
    LevenshteinRows([j \in 1..(Len(s2) + 1) |-> j - 1], s1, s2, 1)

\* levenshteinSimilarity(s1, s2)
levenshteinSimilarity(s1, s2) ==
    LET longer == IF Len(s1) > Len(s2) THEN s1 ELSE s2
        shorter == IF Len(s1) > Len(s2) THEN s2 ELSE s1
    IN  IF Len(longer) = 0 THEN One
        ELSE Rat(Len(longer) - levenshteinDistance(longer, shorter), Len(longer))

\* ------------------------------------------------------- combined scoring

\* A market as calculateMatchScore and findBestMatch read it; dates are days.
Market(id, title, date, category) ==
    [id |-> id, title |-> title, date |-> date, category |-> category]

\* The date score without Math.abs.
dateScore_Signed(endDate, expirationTime) ==
    LET dateDiffDays == endDate - expirationTime
    IN  IF dateDiffDays > 30 THEN Zero
        ELSE IF dateDiffDays > 7
        THEN RAdd(Rat(7, 10), Rat(3 * (30 - dateDiffDays), 230))
        ELSE One

\* The date score of two resolution dates (in whole days).
dateScore(endDate, expirationTime) ==
    LET dateDiffDays == IF endDate > expirationTime
                        THEN endDate - expirationTime ELSE expirationTime - endDate
    IN  IF dateDiffDays > 30 THEN Zero
        ELSE IF dateDiffDays > 7
        THEN RAdd(Rat(7, 10), Rat(3 * (30 - dateDiffDays), 230))
        ELSE One

\* interface MatchScore (without the breakdown text)
MatchScore(overall, exact, keyword, token, fuzzy, date, category, method, confidence) ==
    [overall |-> overall, exact |-> exact, keyword |-> keyword, token |-> token,
     fuzzy |-> fuzzy, date |-> date, category |-> category,
     method |-> method, confidence |-> confidence]

\* The titles compared as they are, without toLowerCase().trim().
Normalize_Verbatim(title) == title

\* polymarket.title.toLowerCase().trim()
Normalize(title) == trim(toLowerCase(title))

\* calculateMatchScore: the MatchScore of the four scores and their weighted
\* sum, with the method and the confidence the scores give.
Classified(overall, keywordScore, tokenScore, fuzzyScore, date) ==
    MatchScore(overall, Zero, keywordScore, tokenScore, fuzzyScore, date, Pct(50),
               IF RGeq(keywordScore, Pct(80)) THEN "keyword"
               ELSE IF RGeq(tokenScore, Pct(70)) THEN "token"
               ELSE IF RGeq(fuzzyScore, Pct(90)) THEN "fuzzy"
               ELSE "combined",
               IF RGeq(keywordScore, Pct(80))
               THEN (IF RGeq(overall, Pct(80)) THEN "high" ELSE "medium")
               ELSE IF RGeq(tokenScore, Pct(70))
               THEN (IF RGeq(overall, Pct(70)) THEN "high" ELSE "medium")
               ELSE IF RGeq(fuzzyScore, Pct(90)) THEN "medium"
               ELSE "low")

\* The weighted sum with the category weighted 0.5 instead of 0.05.
Combined_CategoryHeavy(keywordScore, tokenScore, fuzzyScore, date) ==
    Classified(RAdd(RAdd(RAdd(RAdd(RMul(Pct(40), keywordScore),
                                   RMul(Pct(30), tokenScore)),
                              RMul(Pct(15), fuzzyScore)),
                         RMul(Pct(10), date)),
                    RMul(Pct(50), Pct(50))),
               keywordScore, tokenScore, fuzzyScore, date)

\* The weighted sum with the category taken as known (1.0) once a mapping is
\* in the cache.
Combined_WarmCache(keywordScore, tokenScore, fuzzyScore, date) ==
    Classified(RAdd(RAdd(RAdd(RAdd(RMul(Pct(40), keywordScore),
                                   RMul(Pct(30), tokenScore)),
                              RMul(Pct(15), fuzzyScore)),
                         RMul(Pct(10), date)),
                    RMul(Pct(5), IF DOMAIN cachedMappings = {} THEN Pct(50) ELSE One)),
               keywordScore, tokenScore, fuzzyScore, date)

\* calculateMatchScore: the weighted sum (keyword 0.40, token 0.30, fuzzy
\* 0.15, date 0.10, and the category score of 0.5 at 0.05).
Combined(keywordScore, tokenScore, fuzzyScore, date) ==
    Classified(RAdd(RAdd(RAdd(RAdd(RMul(Pct(40), keywordScore),
                                   RMul(Pct(30), tokenScore)),
                              RMul(Pct(15), fuzzyScore)),
                         RMul(Pct(10), date)),
                    RMul(Pct(5), Pct(50))),
               keywordScore, tokenScore, fuzzyScore, date)

\* calculateMatchScore(polymarket, kalshi)
calculateMatchScore(polymarket, kalshi) ==
    IF Normalize(polymarket.title) = Normalize(kalshi.title)
    THEN MatchScore(One, One, One, One, One, One, One, "exact", "high")
    ELSE Combined(keywordOverlapScore(polymarket.title, kalshi.title,
                                      POLITICAL_KEYWORDS \o CRYPTO_KEYWORDS),
                  tokenOverlapScore(polymarket.title, kalshi.title),
                  levenshteinSimilarity(Normalize(polymarket.title),
                                        Normalize(kalshi.title)),
                  dateScore(polymarket.date, kalshi.date))


\* ------------------------------------------------------ best-match selection

\* Three-tier decision making, with the trade test at the review threshold.
ShouldTrade_AtReview(overall) == RGeq(overall, Pct(60))

\* const shouldTrade = score.overall >= 0.75
ShouldTrade(overall) == RGeq(overall, Pct(75))

\* const needsReview = score.overall >= 0.60 && score.overall < 0.75
NeedsReview(overall) == RGeq(overall, Pct(60)) /\ RLess(overall, Pct(75))

\* const matched = score.overall >= 0.60
Matched(overall) == RGeq(overall, Pct(60))

\* One turn of the loop of findBestMatch: the candidate replaces the best one
\* when its overall is higher than bestOverall.
Better(best, kalshi, score) ==
    IF RLess(best.bestOverall, score.overall)
    THEN [bestMatch |-> {[kalshi |-> kalshi, score |-> score]},
          bestOverall |-> score.overall]
    ELSE best

RECURSIVE BestFrom(_, _, _, _)
\* The loop of findBestMatch from candidate i on; best.bestMatch is empty
\* (null) or holds the best candidate so far.
BestFrom(polymarket, kalshiMarkets, i, best) ==
    IF i > Len(kalshiMarkets) THEN best.bestMatch
    ELSE BestFrom(polymarket, kalshiMarkets, i + 1,
                  Better(best, kalshiMarkets[i],
                         calculateMatchScore(polymarket, kalshiMarkets[i])))

\* The MatchResult of the best candidate.
MatchResult(kalshi, score) ==
    [matched |-> Matched(score.overall),
     kalshiTicker |-> kalshi.id, kalshiTitle |-> kalshi.title, score |-> score,
     needsReview |-> NeedsReview(score.overall),
     shouldTrade |-> ShouldTrade(score.overall)]

\* findBestMatch(polymarket, kalshiMarkets): MatchResult | null as a set.
findBestMatch(polymarket, kalshiMarkets) ==
    {MatchResult(b.kalshi, b.score) :
        b \in {x \in BestFrom(polymarket, kalshiMarkets, 1,
                              [bestMatch |-> {}, bestOverall |-> Zero]) :
                  Matched(x.score.overall)}}

\* The Polymarket questions of the model.
PolymarketMarkets ==
    {Market("PA", <<"c", "a", "n", "d", "i", "d", "a", "t", "e", " ", "g", "o", "p", " ", "d">>, 0, "politics"),
     Market("PB", <<"b", "t", "c", " ", "a", "b", "c">>, 0, "crypto"),
     Market("PC", <<" ", "B", "T", "C", " ", "a", "b", "c">>, 0, NULL)}

\* The Kalshi markets of the model. Against "btc abc": KC is in the review
\* tier (0.747), KD is equal after normalization, KE is rejected (0.589), KF
\* is auto-approved (0.956); against "candidate gop d", KA (token) and KB
\* (keyword) both score 0.655.
KalshiMarkets ==
    {Market("KA", <<"g", "o", "p", " ", "d", " ", "c", "a", "n", "d", "i", "d", "a", "t", "e">>, 0, "politics"),
     Market("KB", <<"a", "b", "c", " ", "r", " ", "c", "a", "n", "d", "i", "d", "a", "t", "e">>, 0, "politics"),
     Market("KC", <<"b", "t", "c", " ", "a", "b", "d">>, 12, "crypto"),
     Market("KD", <<"b", "t", "c", " ", "A", "B", "C", " ">>, 40, "politics"),
     Market("KE", <<"b", "i", "t", "c", "o", "i", "n">>, 0, NULL),
     Market("KF", <<"b", "t", "c", " ", " ", "a", "b", "c">>, 0, "crypto")}

\* Length of the candidate lists given to findBestMatch.
MaxCandidates == 2

\* The candidate lists: every sequence of distinct Kalshi markets up to MaxCandidates.
KalshiLists ==
    {ks \in UNION {[1..n -> KalshiMarkets] : n \in 0..MaxCandidates} :
        \A i, j \in DOMAIN ks : i # j => ks[i] # ks[j]}

\* Example 1 of the source (a political event), with equal resolution dates.
Example1 ==
    <<Market("0x123", <<"W", "i", "l", "l", " ", "D", "o", "n", "a", "l", "d", " ", "T", "r", "u", "m", "p", " ", "w", "i", "n", " ", "t", "h", "e", " ", "2", "0", "2", "4", " ", "P", "r", "e", "s", "i", "d", "e", "n", "t", "i", "a", "l", " ", "E", "l", "e", "c", "t", "i", "o", "n", "?">>, 0, "politics"),
      Market("PRES-2024-TRUMP", <<"W", "i", "l", "l", " ", "t", "h", "e", " ", "R", "e", "p", "u", "b", "l", "i", "c", "a", "n", " ", "c", "a", "n", "d", "i", "d", "a", "t", "e", " ", "w", "i", "n", " ", "t", "h", "e", " ", "2", "0", "2", "4", " ", "p", "r", "e", "s", "i", "d", "e", "n", "t", "i", "a", "l", " ", "e", "l", "e", "c", "t", "i", "o", "n", "?">>, 0, "Politics")>>

\* Pairs of questions on one event that differ in one outcome word.
OppositePairs ==
    {<<Market("PD", <<"W", "i", "l", "l", " ", "B", "i", "d", "e", "n", " ", "l", "o", "s", "e", " ", "t", "h", "e", " ", "2", "0", "2", "4", " ", "p", "r", "e", "s", "i", "d", "e", "n", "t", "i", "a", "l", " ", "e", "l", "e", "c", "t", "i", "o", "n", "?">>, 0, "politics"),
       Market("KG", <<"W", "i", "l", "l", " ", "B", "i", "d", "e", "n", " ", "w", "i", "n", " ", "t", "h", "e", " ", "2", "0", "2", "4", " ", "p", "r", "e", "s", "i", "d", "e", "n", "t", "i", "a", "l", " ", "e", "l", "e", "c", "t", "i", "o", "n", "?">>, 0, "politics")>>,
     <<Market("PE", <<"W", "i", "l", "l", " ", "t", "h", "e", " ", "S", "u", "p", "r", "e", "m", "e", " ", "C", "o", "u", "r", "t", " ", "o", "v", "e", "r", "t", "u", "r", "n", " ", "R", "o", "e", " ", "v", " ", "W", "a", "d", "e", "?">>, 0, "politics"),
       Market("KH", <<"W", "i", "l", "l", " ", "t", "h", "e", " ", "S", "u", "p", "r", "e", "m", "e", " ", "C", "o", "u", "r", "t", " ", "u", "p", "h", "o", "l", "d", " ", "R", "o", "e", " ", "v", " ", "W", "a", "d", "e", "?">>, 0, "politics")>>,
     <<Market("PF", <<"W", "i", "l", "l", " ", "B", "i", "t", "c", "o", "i", "n", " ", "c", "l", "o", "s", "e", " ", "a", "b", "o", "v", "e", " ", "5", "0", "0", "0", "0", "?">>, 0, "crypto"),
       Market("KI", <<"W", "i", "l", "l", " ", "B", "i", "t", "c", "o", "i", "n", " ", "c", "l", "o", "s", "e", " ", "b", "e", "l", "o", "w", " ", "5", "0", "0", "0", "0", "?">>, 0, "crypto")>>}

\* Resolution dates, in days.
Dates == {0, 7, 8, 19, 30, 31, 45}

\* One pair of questions at every pair of resolution dates.
DatedPairs ==
    {<<Market("PB", <<"b", "t", "c", " ", "a", "b", "c">>, endDate, "crypto"),
       Market("KC", <<"b", "t", "c", " ", "a", "b", "d">>, expirationTime, "crypto")>> :
        endDate \in Dates, expirationTime \in Dates}

\* The pairs calculateMatchScore is called on.
ScoredPairs ==
    (PolymarketMarkets \X KalshiMarkets) \cup {Example1} \cup OppositePairs \cup DatedPairs

\* The texts keywordOverlapScore and tokenOverlapScore are called on: the
\* empty text, texts of stopwords and short words only, texts with and
\* without keywords, in either case.
Texts ==
    {<<>>, <<"w", "i", "l", "l", " ", "b", "e", " ", "t", "h", "e">>, <<"t", "o", " ", "d", "o", "?">>, <<"b", "t", "c", " ", "a", "b", "c">>, <<"B", "T", "C", " ", "A", "b", "c", "!">>, <<"b", "t", "c", " ", "a", "b", "d">>,
     <<"c", "a", "n", "d", "i", "d", "a", "t", "e", " ", "g", "o", "p", " ", "d">>, <<"g", "o", "p", " ", "d", " ", "c", "a", "n", "d", "i", "d", "a", "t", "e">>, <<"T", "r", "u", "m", "p", " ", "w", "i", "n", "s", ",", " ", "B", "i", "d", "e", "n", " ", "l", "o", "s", "e", "s">>,
     <<"w", "i", "l", "l", " ", "b", "i", "t", "c", "o", "i", "n", " ", "t", "r", "a", "d", "e", " ", "a", "b", "o", "v", "e", " ", "e", "t", "h">>, <<"E", "T", "H", " ", "o", "v", "e", "r", " ", "B", "T", "C", " ", "b", "y", " ", "d", "e", "c", "e", "m", "b", "e", "r">>}

\* No call has been made.
NoMatchScore == [called |-> FALSE]
NoMatchResult == [called |-> FALSE]

\* calculateMatchScore(polymarket, kalshi) is called; a behaviour of the
\* scoring functions is one call on one input.
CalculateMatchScore(polymarket, kalshi) ==
    /\ ~matchScore.called /\ ~textScore.called /\ ~matchResult.called
    /\ matchScore' = [called |-> TRUE, polymarket |-> polymarket, kalshi |-> kalshi,
                      score |-> calculateMatchScore(polymarket, kalshi),
                      run |-> 1, earlier |-> {}]
    /\ UNCHANGED <<textScore, matchResult>>
    /\ UNCHANGED <<tradingVars, detectorVars, storeVars, cryptoVars>>

\* The most calls of calculateMatchScore in one behaviour.
MaxRuns == 3

\* The questions calculateMatchScore is called on more than once.
RepeatPairs == {<<p, k>> \in PolymarketMarkets \X KalshiMarkets :
                   <<p.id, k.id>> \in {<<"PA", "KA">>, <<"PB", "KC">>}}

\* calculateMatchScore(polymarket, kalshi) is called again, after other calls of
\* it and of the event matcher; the results of the calls before are kept.
CalculateMatchScoreAgain(polymarket, kalshi) ==
    /\ matchScore.called /\ matchScore.run < MaxRuns
    /\ matchScore' = [called |-> TRUE, polymarket |-> polymarket, kalshi |-> kalshi,
                      score |-> calculateMatchScore(polymarket, kalshi),
                      run |-> matchScore.run + 1,
                      earlier |-> matchScore.earlier \cup
                                  {[polymarket |-> matchScore.polymarket,
                                    kalshi |-> matchScore.kalshi,
                                    score |-> matchScore.score]}]
    /\ UNCHANGED <<textScore, matchResult>>
    /\ UNCHANGED <<tradingVars, detectorVars, storeVars, cryptoVars>>

\* No call has been made.
NoTextScore == [called |-> FALSE]

\* keywordOverlapScore(text1, text2, keywordGroups) is called with the
\* keyword groups calculateMatchScore passes.
KeywordOverlapScore(text1, text2) ==
    /\ ~matchScore.called /\ ~textScore.called /\ ~matchResult.called
    /\ textScore' = [called |-> TRUE, function |-> "keywordOverlapScore",
                     text1 |-> text1, text2 |-> text2,
                     score |-> keywordOverlapScore(text1, text2,
                                                   POLITICAL_KEYWORDS \o CRYPTO_KEYWORDS)]
    /\ UNCHANGED <<matchScore, matchResult>>
    /\ UNCHANGED <<tradingVars, detectorVars, storeVars, cryptoVars>>

\* tokenOverlapScore is called on two texts, in one order and in the other.
TokenOverlapScore(text1, text2) ==
    /\ ~matchScore.called /\ ~textScore.called /\ ~matchResult.called
    /\ textScore' = [called |-> TRUE, function |-> "tokenOverlapScore",
                     text1 |-> text1, text2 |-> text2,
                     score |-> tokenOverlapScore(text1, text2),
                     swapped |-> tokenOverlapScore(text2, text1)]
    /\ UNCHANGED <<matchScore, matchResult>>
    /\ UNCHANGED <<tradingVars, detectorVars, storeVars, cryptoVars>>

\* findBestMatch(polymarket, kalshiMarkets) is called.
FindBestMatch(polymarket, kalshiMarkets) ==
    /\ ~matchScore.called /\ ~textScore.called /\ ~matchResult.called
    /\ matchResult' = [called |-> TRUE, polymarket |-> polymarket,
                       kalshiMarkets |-> kalshiMarkets,
                       result |-> findBestMatch(polymarket, kalshiMarkets)]
    /\ UNCHANGED <<matchScore, textScore>>
    /\ UNCHANGED <<tradingVars, detectorVars, storeVars, cryptoVars>>

\* -------------------------------------------------------------- EventMatcher

\* config.matching, in hundredths
minConfidenceThreshold == 75
reviewConfidenceThreshold == 60

\* createMapping / addManualMapping: default outcome mapping
DefaultOutcomeMapping ==
    <<[polymarketOutcome |-> "Yes", kalshiSide |-> "yes"],
      [polymarketOutcome |-> "No", kalshiSide |-> "no"]>>

\* An EventMapping (without id, description and dates), with the needsReview
\* flag findKalshiEquivalent attaches (absent, so falsy, on other mappings).
EventMapping(polymarketConditionId, kalshiTicker, matchConfidence, matchMethod, outcomeMapping, isActive, needsReview) ==
    [polymarketConditionId |-> polymarketConditionId, kalshiTicker |-> kalshiTicker,
     matchConfidence |-> matchConfidence, matchMethod |-> matchMethod,
     outcomeMapping |-> outcomeMapping, isActive |-> isActive,
     needsReview |-> needsReview]

\* A Map with no entry.
NoMappings == [key \in {} |-> NULL]

\* Map.prototype.set and Map.prototype.delete
MapSet(map, key, value) ==
    [k \in DOMAIN map \cup {key} |-> IF k = key THEN value ELSE map[k]]
MapDelete(map, key) == [k \in DOMAIN map \ {key} |-> map[k]]

\* What a DECIMAL(3,2) column keeps of a confidence: two decimal places, rounded.
Decimal32(r) == Rat((r.n * 200 + r.d) \div (2 * r.d), 100)

\* The row saveMapping inserts.
Row(mapping) ==
    [polymarket_condition_id |-> mapping.polymarketConditionId,
     kalshi_ticker |-> mapping.kalshiTicker,
     match_confidence |-> Decimal32(mapping.matchConfidence),
     match_method |-> mapping.matchMethod,
     is_active |-> mapping.isActive]

\* INSERT INTO event_mappings ... ON CONFLICT (polymarket_condition_id,
\* kalshi_ticker) DO UPDATE SET match_confidence = $5, updated_at = NOW()
Upsert(rows, mapping) ==
    IF \E r \in rows : /\ r.polymarket_condition_id = mapping.polymarketConditionId
                       /\ r.kalshi_ticker = mapping.kalshiTicker
    THEN {IF /\ r.polymarket_condition_id = mapping.polymarketConditionId
             /\ r.kalshi_ticker = mapping.kalshiTicker
          THEN [r EXCEPT !.match_confidence = Decimal32(mapping.matchConfidence)]
          ELSE r : r \in rows}
    ELSE rows \cup {Row(mapping)}

\* The EventMapping loadMappings builds from a row.
Loaded(row) ==
    EventMapping(row.polymarket_condition_id, row.kalshi_ticker, row.match_confidence,
                 row.match_method, <<>>, row.is_active, FALSE)

\* getActiveMappings()
getActiveMappings ==
    {cachedMappings[id] : id \in {k \in DOMAIN cachedMappings : cachedMappings[k].isActive}}

\* canTradeOnMapping(mapping)
canTradeOnMapping(mapping) == ~RLess(mapping.matchConfidence, Pct(minConfidenceThreshold))

\* One turn of the loop of findKalshiEquivalent: candidates under the review
\* threshold are skipped, a candidate replaces a lower one.
BetterAbove(bestMatch, kalshi, score) ==
    IF RLess(score.overall, Pct(reviewConfidenceThreshold)) THEN bestMatch
    ELSE IF bestMatch = {} \/ \E b \in bestMatch : RLess(b.score.overall, score.overall)
         THEN {[kalshi |-> kalshi, score |-> score]}
         ELSE bestMatch

RECURSIVE BestAbove(_, _, _, _)
\* The loop of findKalshiEquivalent from candidate i on.
BestAbove(polymarket, kalshiMarkets, i, bestMatch) ==
    IF i > Len(kalshiMarkets) THEN bestMatch
    ELSE BestAbove(polymarket, kalshiMarkets, i + 1,
                   BetterAbove(bestMatch, kalshiMarkets[i],
                               calculateMatchScore(polymarket, kalshiMarkets[i])))

\* createMapping(polymarket, bestMatch.kalshi, overall, method) with the
\* needsReview flag findKalshiEquivalent sets on it.
createMapping(polymarket, kalshi, confidence, method) ==
    EventMapping(polymarket.id, kalshi.id, confidence, method, DefaultOutcomeMapping, TRUE,
                 RLess(confidence, Pct(minConfidenceThreshold)))

\* The candidate lists buildMappings passes to findKalshiEquivalent.
MatcherLists ==
    {ks \in [1..2 -> KalshiMarkets] : <<ks[1].id, ks[2].id>> \in {<<"KC", "KE">>, <<"KA", "KF">>}}

\* The pairs an operator maps by hand.
ManualPairs == {<<"PA", "KE">>}

\* The questions buildMappings looks up.
MatcherQuestions == {m \in PolymarketMarkets : m.id \in {"PA", "PB"}}

\* No call has returned.
NothingReturned == [called |-> FALSE]

\* findKalshiEquivalent(polymarket, kalshiMarkets) up to its await: the cached
\* mapping, or no match, or the new mapping handed to saveMapping.
FindKalshiEquivalent(polymarket, kalshiMarkets) ==
    /\ mpc = "idle"
    /\ IF polymarket.id \in DOMAIN cachedMappings /\ cachedMappings[polymarket.id].isActive
       THEN /\ returned' = [called |-> TRUE, polymarket |-> polymarket,
                            kalshiMarkets |-> kalshiMarkets,
                            mapping |-> {cachedMappings[polymarket.id]}, fromCache |-> TRUE]
            /\ UNCHANGED <<mpc, pending>>
       ELSE \E bestMatch \in {BestAbove(polymarket, kalshiMarkets, 1, {})} :
                IF bestMatch = {}
                THEN /\ returned' = [called |-> TRUE, polymarket |-> polymarket,
                                     kalshiMarkets |-> kalshiMarkets,
                                     mapping |-> {}, fromCache |-> FALSE]
                     /\ UNCHANGED <<mpc, pending>>
                ELSE /\ pending' = [call |-> "findKalshiEquivalent",
                                    polymarket |-> polymarket,
                                    kalshiMarkets |-> kalshiMarkets,
                                    mapping |-> CHOOSE m \in
                                        {createMapping(polymarket, b.kalshi, b.score.overall,
                                                       b.score.method) : b \in bestMatch} : TRUE]
                     /\ mpc' = "saving"
                     /\ UNCHANGED returned
    /\ UNCHANGED <<cachedMappings, manualMappings, eventMappings>>
    /\ UNCHANGED <<tradingVars, detectorVars, scoringVars, cryptoVars>>

\* addManualMapping(polymarketConditionId, kalshiTicker) up to its await.
AddManualMapping(polymarketConditionId, kalshiTicker) ==
    /\ mpc = "idle"
    /\ pending' = [call |-> "addManualMapping",
                   mapping |-> EventMapping(polymarketConditionId, kalshiTicker, One, "manual",
                                            DefaultOutcomeMapping, TRUE, FALSE)]
    /\ mpc' = "saving"
    /\ UNCHANGED <<cachedMappings, manualMappings, eventMappings, returned>>
    /\ UNCHANGED <<tradingVars, detectorVars, scoringVars, cryptoVars>>

\* What the caller of saveMapping does when it resolves: return the mapping,
\* addManualMapping after recording the pair in manualMappings.
AfterSave ==
    /\ manualMappings' =
          IF pending.call = "addManualMapping"
          THEN MapSet(manualMappings, pending.mapping.polymarketConditionId,
                      pending.mapping.kalshiTicker)
          ELSE manualMappings
    /\ returned' =
          IF pending.call = "findKalshiEquivalent"
          THEN [called |-> TRUE, polymarket |-> pending.polymarket,
                kalshiMarkets |-> pending.kalshiMarkets,
                mapping |-> {pending.mapping}, fromCache |-> FALSE]
          ELSE returned
    /\ mpc' = "idle"
    /\ pending' = NoPending

\* saveMapping: the INSERT succeeds, the cache is updated.
SaveSucceeds ==
    /\ mpc = "saving"
    /\ eventMappings' = Upsert(eventMappings, pending.mapping)
    /\ cachedMappings' = MapSet(cachedMappings, pending.mapping.polymarketConditionId,
                                pending.mapping)
    /\ AfterSave
    /\ UNCHANGED <<tradingVars, detectorVars, scoringVars, cryptoVars>>

\* saveMapping: the INSERT fails, the error is logged.
SaveFails ==
    /\ mpc = "saving"
    /\ AfterSave
    /\ UNCHANGED <<cachedMappings, eventMappings>>
    /\ UNCHANGED <<tradingVars, detectorVars, scoringVars, cryptoVars>>

\* removeMapping(polymarketConditionId) up to its await.
RemoveMapping(polymarketConditionId) ==
    /\ mpc = "idle"
    /\ polymarketConditionId \in DOMAIN cachedMappings
    /\ pending' = [call |-> "removeMapping", polymarketConditionId |-> polymarketConditionId]
    /\ mpc' = "removing"
    /\ UNCHANGED <<cachedMappings, manualMappings, eventMappings, returned>>
    /\ UNCHANGED <<tradingVars, detectorVars, scoringVars, cryptoVars>>

\* removeMapping: the UPDATE succeeds, the entry leaves both Maps.
RemoveSucceeds ==
    /\ mpc = "removing"
    /\ eventMappings' =
          {IF r.polymarket_condition_id = pending.polymarketConditionId
           THEN [r EXCEPT !.is_active = FALSE] ELSE r : r \in eventMappings}
    /\ cachedMappings' = MapDelete(cachedMappings, pending.polymarketConditionId)
    /\ manualMappings' = MapDelete(manualMappings, pending.polymarketConditionId)
    /\ mpc' = "idle"
    /\ pending' = NoPending
    /\ UNCHANGED returned
    /\ UNCHANGED <<tradingVars, detectorVars, scoringVars, cryptoVars>>

\* removeMapping: the UPDATE fails, the error is logged.
RemoveFails ==
    /\ mpc = "removing"
    /\ mpc' = "idle"
    /\ pending' = NoPending
    /\ UNCHANGED <<cachedMappings, manualMappings, eventMappings, returned>>
    /\ UNCHANGED <<tradingVars, detectorVars, scoringVars, cryptoVars>>

\* loadMappings() up to its await.
LoadMappings ==
    /\ mpc = "idle"
    /\ eventMappings # {}
    /\ pending' = [call |-> "loadMappings"]
    /\ mpc' = "loading"
    /\ UNCHANGED <<cachedMappings, manualMappings, eventMappings, returned>>
    /\ UNCHANGED <<tradingVars, detectorVars, scoringVars, cryptoVars>>

\* The rows a SELECT of the active rows can leave in the Maps: the result has
\* no ORDER BY, and of the rows of one condition id the last one set stays.
LastRows ==
    LET active == {r \in eventMappings : r.is_active}
    IN  {last \in SUBSET active :
            \A r \in active : Cardinality({l \in last :
                l.polymarket_condition_id = r.polymarket_condition_id}) = 1}

\* loadMappings: the SELECT of the active rows answers, each row is set in
\* both Maps; `last` holds the row set last for each condition id.
MappingsLoaded ==
    /\ mpc = "loading"
    /\ \E last \in LastRows :
          /\ cachedMappings' =
                [id \in DOMAIN cachedMappings \cup {r.polymarket_condition_id : r \in last} |->
                    IF \E r \in last : r.polymarket_condition_id = id
                    THEN Loaded(CHOOSE r \in last : r.polymarket_condition_id = id)
                    ELSE cachedMappings[id]]
          /\ manualMappings' =
                [id \in DOMAIN manualMappings \cup {r.polymarket_condition_id : r \in last} |->
                    IF \E r \in last : r.polymarket_condition_id = id
                    THEN (CHOOSE r \in last : r.polymarket_condition_id = id).kalshi_ticker
                    ELSE manualMappings[id]]
    /\ mpc' = "idle"
    /\ pending' = NoPending
    /\ UNCHANGED <<eventMappings, returned>>
    /\ UNCHANGED <<tradingVars, detectorVars, scoringVars, cryptoVars>>

\* loadMappings: the SELECT fails and there is no JSON file to fall back on.
LoadFails ==
    /\ mpc = "loading"
    /\ mpc' = "idle"
    /\ pending' = NoPending
    /\ UNCHANGED <<cachedMappings, manualMappings, eventMappings, returned>>
    /\ UNCHANGED <<tradingVars, detectorVars, scoringVars, cryptoVars>>

\* ------------------------------------------------------------ crypto executor
\* The CryptoExecutor in paper trading mode (the default). Time is in minutes,
\* prices are in thousandths of a dollar, amounts in money units rounded down.

\* type SignalDirection
SignalDirection == {"UP", "DOWN", "NEUTRAL"}

\* interface Signal, with the signals of its three indicators
Signal(direction, confidence, indicators) ==
    [direction |-> direction, confidence |-> confidence, indicators |-> indicators]

NoSignal == Signal("NEUTRAL", 0, <<"NEUTRAL", "NEUTRAL", "NEUTRAL">>)

\* The indicators of generateSignal that vote for `direction`.
Votes(direction, indicators) ==
    Cardinality({i \in DOMAIN indicators : indicators[i] = direction})

\* generateSignal that reports a direction on one vote.
generateSignal_OneVote(rsiSignal, macdSignal, momentumSignal) ==
    LET upVotes == Votes("UP", <<rsiSignal, macdSignal, momentumSignal>>)
        downVotes == Votes("DOWN", <<rsiSignal, macdSignal, momentumSignal>>)
        indicators == <<rsiSignal, macdSignal, momentumSignal>>
    IN  IF upVotes >= 1 THEN Signal("UP", minConfidence, indicators)
        ELSE IF downVotes >= 1 THEN Signal("DOWN", minConfidence, indicators)
        ELSE Signal("NEUTRAL", 0, indicators)

\* CryptoSignalStrategy.generateSignal, from the three analysed indicators on
generateSignal(rsiSignal, macdSignal, momentumSignal) ==
    LET upVotes == Votes("UP", <<rsiSignal, macdSignal, momentumSignal>>)
        downVotes == Votes("DOWN", <<rsiSignal, macdSignal, momentumSignal>>)
        indicators == <<rsiSignal, macdSignal, momentumSignal>>
    IN  IF upVotes >= minConfidence THEN Signal("UP", upVotes, indicators)
        ELSE IF downVotes >= minConfidence THEN Signal("DOWN", downVotes, indicators)
        ELSE Signal("NEUTRAL", 0, indicators)

\* interface BTCMarket; getMarketPrices answers 0.5 for both sides
BTCMarket(epoch, active) ==
    [slug |-> epoch, eventTimestamp |-> epoch, yesPrice |-> 500, noPrice |-> 500,
     active |-> active]

\* What the Gamma API lists: the market of the next interval, only the one of
\* the current interval, or none.
Listings == {"next", "current", "none"}

\* MarketScanner.getCurrentBTCMarket(): the market, or null (no element)
getCurrentBTCMarket(listed, active) ==
    LET nextInterval == ((now + interval - 1) \div interval) * interval
        currentInterval == (now \div interval) * interval
    IN  IF listed = "next" THEN {BTCMarket(nextInterval, active)}
        ELSE IF listed = "current" THEN {BTCMarket(currentInterval, active)}
        ELSE {}

\* MarketScanner.isMarketOpen(market): more than 60 seconds to the resolution
isMarketOpen(market) == market.eventTimestamp - now > 1 /\ market.active

\* MarketScanner.getTimeRemaining(market), called when Date.now() is `time`
getTimeRemaining(market, time) ==
    IF market.eventTimestamp - time - 1 > 0 THEN market.eventTimestamp - time - 1 ELSE 0

\* CryptoExecutor.calculatePositionSize(confidence)
calculatePositionSize(confidence) ==
    LET baseSize == (capital * maxPositionSize) \div 100
    IN  IF confidence = 3 THEN (baseSize * 3) \div 2 ELSE baseSize

\* closePosition: exitValue = invested / entryPrice * currentPrice
exitValue(position) == (position.amount * position.currentPrice) \div position.entryPrice

\* CryptoExecutor.closePosition(position, reason)
closePosition(position) ==
    [position EXCEPT !.status = "CLOSED", !.exitPrice = position.currentPrice,
                     !.pnl = exitValue(position) - position.amount]

\* Values of Math.random(), in hundredths.
Draws == {0, 50, 90}

\* monitorPositions, the simulated price of an open position: the resolution
\* when the market is about to close, otherwise a small move.
Simulated(position, draw, time) ==
    IF getTimeRemaining(position.market, time) < 1
    THEN [position EXCEPT !.currentPrice = IF draw > 50 THEN 950 ELSE 50]
    ELSE LET moved == position.currentPrice + ((draw - 50) * 50) \div 100
         IN  [position EXCEPT !.currentPrice =
                 IF moved > 950 THEN 950 ELSE IF moved < 50 THEN 50 ELSE moved]

\* monitorPositions, one turn of its loop: the exit conditions.
Monitored(position, draw, time) ==
    IF position.status # "OPEN" THEN position
    ELSE LET p == Simulated(position, draw, time)
         IN  IF \/ p.currentPrice >= takeProfitThreshold
                \/ p.currentPrice <= stopLossThreshold
                \/ getTimeRemaining(p.market, time) < 1
             THEN closePosition(p)
             ELSE p

\* checkAndExecute called without waiting for it to return.
StartCycle_NotAwaited(delay, draws, limit) ==
    /\ sleeping
    /\ cycles < limit
    /\ now' = now + delay
    /\ LET after == [slug \in DOMAIN cryptoPositions |->
                        Monitored(cryptoPositions[slug], draws[slug], now')]
           closed == {slug \in DOMAIN cryptoPositions :
                         cryptoPositions[slug].status = "OPEN" /\ after[slug].status = "CLOSED"}
       IN  /\ cryptoPositions' = after
           /\ capital' = capital + SumOf([slug \in closed |-> exitValue(after[slug])], closed)
    /\ sleeping' = TRUE
    /\ cpc' = "signal"
    /\ cycles' = cycles + 1
    /\ UNCHANGED <<tradeHistory, signal, logged>>
    /\ UNCHANGED <<tradingVars, detectorVars, matcherVars>>

\* The caller's wait of `delay` minutes ends (before the first call, its
\* start-up) and checkAndExecute runs to its second await: monitorPositions()
\* with the draws of Math.random(), then generateSignal() is called.
StartCycle(delay, draws, limit) ==
    /\ sleeping
    /\ cycles < limit
    /\ now' = now + delay
    /\ LET after == [slug \in DOMAIN cryptoPositions |->
                        Monitored(cryptoPositions[slug], draws[slug], now')]
           closed == {slug \in DOMAIN cryptoPositions :
                         cryptoPositions[slug].status = "OPEN" /\ after[slug].status = "CLOSED"}
       IN  /\ cryptoPositions' = after
           /\ capital' = capital + SumOf([slug \in closed |-> exitValue(after[slug])], closed)
    /\ sleeping' = FALSE
    /\ cpc' = "signal"
    /\ cycles' = cycles + 1
    /\ UNCHANGED <<tradeHistory, signal, logged>>
    /\ UNCHANGED <<tradingVars, detectorVars, matcherVars>>

\* checkAndExecute returns after logging `message`: its caller sets its timer.
EndCycle(message) ==
    /\ logged' = message
    /\ cpc' = "idle"
    /\ sleeping' = TRUE
    /\ signal' = NoSignal

\* generateSignal() resolves: the gates on the direction and the confidence,
\* then getCurrentBTCMarket() is called.
SignalGenerated(rsiSignal, macdSignal, momentumSignal) ==
    /\ cpc = "signal"
    /\ LET s == generateSignal(rsiSignal, macdSignal, momentumSignal)
       IN  IF s.direction = "NEUTRAL"
           THEN EndCycle("No trade signal - neutral market")
           ELSE IF s.confidence < minSignalConfidence
           THEN EndCycle("Signal confidence too low")
           ELSE /\ signal' = s
                /\ cpc' = "scan"
                /\ UNCHANGED <<sleeping, logged>>
    /\ UNCHANGED <<capital, cryptoPositions, tradeHistory, now, cycles>>
    /\ UNCHANGED <<tradingVars, detectorVars, matcherVars>>

\* generateSignal() rejects: the catch block of checkAndExecute.
SignalFails ==
    /\ cpc = "signal"
    /\ EndCycle("Error in trading loop")
    /\ UNCHANGED <<capital, cryptoPositions, tradeHistory, now, cycles>>
    /\ UNCHANGED <<tradingVars, detectorVars, matcherVars>>

\* interface Position with its Trade
CryptoPosition(s, market, side, amount, entryPrice) ==
    [signal |-> s, market |-> market, side |-> side, amount |-> amount,
     entryPrice |-> entryPrice, timestamp |-> now, currentPrice |-> entryPrice,
     pnl |-> 0, status |-> "OPEN", exitPrice |-> 0]

\* CryptoExecutor.executeTrade(signal, market, amount)
executeTrade(s, market, amount) ==
    LET side == IF s.direction = "UP" THEN "YES" ELSE "NO"
        entryPrice == IF side = "YES" THEN market.yesPrice ELSE market.noPrice
        position == CryptoPosition(s, market, side, amount, entryPrice)
    IN  /\ cryptoPositions' = MapSet(cryptoPositions, market.slug, position)
        /\ tradeHistory' = Append(tradeHistory, [market |-> market.slug, side |-> side,
                                                 amount |-> amount, timestamp |-> now])
        /\ capital' = capital - amount

\* if (this.positions.size >= this.config.maxConcurrentPositions)
AtPositionLimit == Cardinality(DOMAIN cryptoPositions) >= maxConcurrentPositions

\* getCurrentBTCMarket() resolves: the checks on the market, the position
\* limit and the capital, then executeTrade, which returns without waiting.
MarketScanned(listed, active) ==
    /\ cpc = "scan"
    /\ LET found == getCurrentBTCMarket(listed, active)
       IN  IF found = {}
           THEN /\ EndCycle("No active BTC market found")
                /\ UNCHANGED <<capital, cryptoPositions, tradeHistory>>
           ELSE LET market == CHOOSE m \in found : TRUE
                    positionSize == calculatePositionSize(signal.confidence)
                IN  IF ~isMarketOpen(market)
                    THEN /\ EndCycle("Market is closed or about to close")
                         /\ UNCHANGED <<capital, cryptoPositions, tradeHistory>>
                    ELSE IF AtPositionLimit
                    THEN /\ EndCycle("Max concurrent positions reached")
                         /\ UNCHANGED <<capital, cryptoPositions, tradeHistory>>
                    ELSE IF positionSize > capital
                    THEN /\ EndCycle("Insufficient capital for trade")
                         /\ UNCHANGED <<capital, cryptoPositions, tradeHistory>>
                    ELSE /\ executeTrade(signal, market, positionSize)
                         /\ EndCycle("Position opened")
    /\ UNCHANGED <<now, cycles>>
    /\ UNCHANGED <<tradingVars, detectorVars, matcherVars>>

\* The slugs of the open positions.
OpenSlugs == {slug \in DOMAIN cryptoPositions : cryptoPositions[slug].status = "OPEN"}

\* Minutes from the construction to the first cycle, and the waits of main()
\* between two cycles: CHECK_INTERVAL, or a little more when the timer is late.
StartDelays == {5, 14}
LoopDelays == {CHECK_INTERVAL, CHECK_INTERVAL + 1}

\* ------------------------------------------------------------ specification

Init ==
    /\ circuitBreaker = InitialBreaker
    /\ alerts = {}
    /\ attempts = 0
    /\ connected = FALSE
    /\ rpc = "idle"
    /\ epc = "idle"
    /\ opp = NoOpportunity
    /\ quantity = 0
    /\ currentSpread = 0
    /\ buyResult = NULL
    /\ sellResult = NULL
    /\ orders = {}
    /\ positions = {}
    /\ executions = <<>>
    /\ riskCheck = NoRiskCheck
    /\ detected = NoDetection
    /\ matchScore = NoMatchScore
    /\ textScore = NoTextScore
    /\ matchResult = NoMatchResult
    /\ cachedMappings = NoMappings
    /\ manualMappings = NoMappings
    /\ eventMappings = {}
    /\ mpc = "idle"
    /\ pending = NoPending
    /\ returned = NothingReturned
    /\ capital = startingCapital * Dollar
    /\ cryptoPositions = NoMappings
    /\ tradeHistory = <<>>
    /\ now = 0
    /\ cpc = "idle"
    /\ sleeping = TRUE
    /\ signal = NoSignal
    /\ cycles = 0
    /\ logged = NULL

\* The program as the source wires it: the operator's pause() and resume(),
\* the reconnector, and the coordinating loop with
\* its risk gate and execution coordinator.
Next ==
    \/ \E reason \in ManualReasons : Pause(reason)
    \/ Resume
    \/ Connect
    \/ EstablishSucceeds
    \/ EstablishFails
    \/ SleepEnds
    \/ HeartbeatTimeout
    \/ \E o \in Opportunities : \E q \in Quantities(o) : \E pnl \in DailyPnLValues :
          ValidateRisk(o, q, pnl)
    \/ DropOpportunity
    \/ ExecuteArbitrage
    \/ \E spread \in Spreads(opp) : SpreadValidated(spread)
    \/ BuyLegSettles
    \/ SellLegSettles
    \/ Resolve
    \/ AlertSent

Spec == Init /\ [][Next]_vars

\* The books a detection cycle of the coordinating loop reads: a pair with an
\* opportunity and a pair without.
LoopBooks ==
    {<<OrderBook(<<Level(30 * 100)>>, <<Level(30 * 100)>>), OrderBook(<<Level(60)>>, <<Level(60)>>)>>,
     <<OrderBook(<<Level(50 * 100)>>, <<Level(50 * 100)>>), OrderBook(<<Level(46)>>, <<Level(46)>>)>>}

\* The coordinating loop with its detector, its risk gate and its execution
\* coordinator, and the operator at the breaker.
NextLoop ==
    \/ \E books \in LoopBooks : DetectArbitrage(books[1], books[2])
    \/ \E o \in Opportunities : \E q \in Quantities(o) : \E pnl \in DailyPnLValues :
          ValidateRisk(o, q, pnl)
    \/ DropOpportunity
    \/ ExecuteArbitrage
    \/ \E spread \in Spreads(opp) : SpreadValidated(spread)
    \/ BuyLegSettles
    \/ SellLegSettles
    \/ Resolve
    \/ AlertSent
    \/ \E reason \in ManualReasons : Pause(reason)
    \/ Resume

SpecLoop == Init /\ [][NextLoop]_vars

\* The risk gate and the execution coordinator with the timers of the FOK
\* orders.
NextExecution ==
    \/ \E o \in Opportunities : \E q \in Quantities(o) : \E pnl \in DailyPnLValues :
          ValidateRisk(o, q, pnl)
    \/ DropOpportunity
    \/ ExecuteArbitrage
    \/ \E spread \in Spreads(opp) : SpreadValidated(spread)
    \/ BuyLegSettles
    \/ SellLegSettles
    \/ BuyLegTimesOut
    \/ SellLegTimesOut
    \/ Resolve
    \/ AlertSent

\* A timer that is due fires, and a callback that can run does: the venues
\* and the alert sink need not answer.
SpecExecution ==
    /\ Init
    /\ [][NextExecution]_vars
    /\ WF_vars(BuyLegTimesOut)
    /\ WF_vars(SellLegTimesOut)
    /\ WF_vars(Resolve)

\* The CircuitBreaker interface driven by arbitrary client calls.
NextBreaker ==
    \/ \E type \in FailureType : RecordFailure(type)
    \/ RecordSuccess
    \/ \E reason \in ManualReasons : Pause(reason)
    \/ Resume
    \/ Connect
    \/ EstablishSucceeds
    \/ EstablishFails
    \/ SleepEnds
    \/ HeartbeatTimeout

SpecBreaker == Init /\ [][NextBreaker]_vars

\* The detector run on every pair of books.
NextDetector ==
    \E polyBook \in PolyBooks : \E kalshiBook \in KalshiBooks :
        DetectArbitrage(polyBook, kalshiBook)

SpecDetector == Init /\ [][NextDetector]_vars

\* The scoring functions run on every pair of markets and every candidate list.
NextScoring ==
    \/ \E pair \in ScoredPairs : CalculateMatchScore(pair[1], pair[2])
    \/ \E text1 \in Texts : \E text2 \in Texts : KeywordOverlapScore(text1, text2)
    \/ \E text1 \in Texts : \E text2 \in Texts : TokenOverlapScore(text1, text2)
    \/ \E polymarket \in PolymarketMarkets : \E kalshiMarkets \in KalshiLists :
          FindBestMatch(polymarket, kalshiMarkets)

SpecScoring == Init /\ [][NextScoring]_vars

\* The EventMatcher driven by buildMappings, the operator and the startup load.
NextMatcher ==
    \/ \E polymarket \in MatcherQuestions : \E kalshiMarkets \in MatcherLists :
          FindKalshiEquivalent(polymarket, kalshiMarkets)
    \/ \E pair \in ManualPairs : AddManualMapping(pair[1], pair[2])
    \/ SaveSucceeds
    \/ SaveFails
    \/ \E id \in {m.id : m \in MatcherQuestions} : RemoveMapping(id)
    \/ RemoveSucceeds
    \/ RemoveFails
    \/ LoadMappings
    \/ MappingsLoaded
    \/ LoadFails

SpecMatcher == Init /\ [][NextMatcher]_vars

\* calculateMatchScore called repeatedly while the event matcher looks for
\* matches, which fills its cache and its table.
NextRepeat ==
    \/ \E pair \in RepeatPairs : CalculateMatchScore(pair[1], pair[2])
    \/ \E pair \in RepeatPairs : CalculateMatchScoreAgain(pair[1], pair[2])
    \/ \E polymarket \in MatcherQuestions : \E kalshiMarkets \in MatcherLists :
          FindKalshiEquivalent(polymarket, kalshiMarkets)
    \/ SaveSucceeds
    \/ SaveFails

SpecRepeat == Init /\ [][NextRepeat]_vars

\* The crypto bot: main() of run-crypto-bot.ts calls checkAndExecute, waits
\* for it, then waits CHECK_INTERVAL.
NextCrypto ==
    \/ \E delay \in (IF cycles = 0 THEN StartDelays ELSE LoopDelays), draws \in [OpenSlugs -> Draws] : StartCycle(delay, draws, MaxCycles)
    \/ \E rsiSignal, macdSignal, momentumSignal \in SignalDirection : SignalGenerated(rsiSignal, macdSignal, momentumSignal)
    \/ SignalFails
    \/ \E listed \in Listings, active \in BOOLEAN : MarketScanned(listed, active)

SpecCrypto == Init /\ [][NextCrypto]_vars

\* The crypto bot over many cycles, each with a signal of two votes and an
\* active market listed.
NextLimit ==
    \/ \E draws \in [OpenSlugs -> Draws] : StartCycle(IF cycles = 0 THEN 5 ELSE CHECK_INTERVAL, draws, MaxLimitCycles)
    \/ SignalGenerated("UP", "UP", "DOWN")
    \/ MarketScanned("next", TRUE)

SpecLimit == Init /\ [][NextLimit]_vars

\* The executor called by any caller that waits for each call to return: the
\* calls come at any distance.
NextExecutor ==
    \/ \E delay \in {5, CHECK_INTERVAL}, draws \in [OpenSlugs -> Draws] : StartCycle(delay, draws, MaxCycles)
    \/ \E rsiSignal, macdSignal, momentumSignal \in SignalDirection : SignalGenerated(rsiSignal, macdSignal, momentumSignal)
    \/ SignalFails
    \/ \E listed \in Listings, active \in BOOLEAN : MarketScanned(listed, active)

SpecExecutor == Init /\ [][NextExecutor]_vars

\* ------------------------------------------------------------------ claims

\* The returned executeArbitrage calls.
Calls == DOMAIN executions

\* Exactly one leg of a pair of settled statuses filled.
OneFilled(buy, sell) ==
    \/ buy = "fulfilled" /\ sell = "rejected"
    \/ buy = "rejected" /\ sell = "fulfilled"

\* The step in which an executeArbitrage call returns.
Returns == Len(executions') = Len(executions) + 1

\* C1: from RUNNING, maxConsecutiveFailures recordFailure calls with no
\* recordSuccess in between leave the breaker paused: every recordFailure call
\* counts one more consecutive failure, and the breaker is paused whenever the
\* count has reached maxConsecutiveFailures; and resume() leaves the breaker
\* not paused with consecutiveFailures and asymmetricExecutions both 0.
C1_BreakerLatch ==
    /\ [](circuitBreaker.consecutiveFailures >= maxConsecutiveFailures => circuitBreaker.paused)
    /\ [][(\E type \in FailureType : RecordFailure(type)) =>
            circuitBreaker'.consecutiveFailures = circuitBreaker.consecutiveFailures + 1]_vars
    /\ [][Resume => /\ ~circuitBreaker'.paused
                    /\ circuitBreaker'.consecutiveFailures = 0
                    /\ circuitBreaker'.asymmetricExecutions = 0]_vars

\* The breaker paused by the third consecutive failure.
C1_Witness ==
    /\ circuitBreaker.paused
    /\ circuitBreaker.consecutiveFailures = maxConsecutiveFailures
    /\ circuitBreaker.asymmetricExecutions = 0
    /\ circuitBreaker.pauseReason = Reason("consecutive failures", maxConsecutiveFailures)

\* C2: a step that takes the breaker from PAUSED to RUNNING is a resume()
\* call; recordSuccess, recordFailure, pause and the reconnector never do.
C2_NoAutomaticResume ==
    [][(circuitBreaker.paused /\ ~circuitBreaker'.paused) => Resume]_vars

\* The breaker still paused by consecutive failures after a recordSuccess has
\* reset the counter.
C2_Witness ==
    /\ circuitBreaker.paused
    /\ circuitBreaker.pauseReason.text = "consecutive failures"
    /\ circuitBreaker.consecutiveFailures = 0

\* C3: no FOK order is submitted in a state where isPaused() is true.
C3_NoOrderWhilePaused ==
    [][orders' # orders => ~circuitBreaker.paused]_vars

\* The risk gate has just returned a check that carries the daily-loss reason.
DailyLossFound ==
    /\ riskCheck' # riskCheck
    /\ \E i \in DOMAIN riskCheck'.reasons : riskCheck'.reasons[i] = "Daily loss limit reached"

\* C4: each critical event leaves the breaker PAUSED, with a critical alert
\* sent, in the step that handles it: the asymmetric fill (the code after
\* Promise.allSettled), the sustained connection loss (connect() giving up)
\* and the breach of the daily-loss limit (the risk gate finding it).
C4_CriticalEventsPause ==
    [][/\ (epc = "placing" /\ epc' # "placing" /\ OneFilled(buyResult, sellResult))
            => (circuitBreaker'.paused /\ "CIRCUIT_BREAKER" \in alerts')
       /\ (rpc = "sleeping" /\ rpc' = "idle")
            => (circuitBreaker'.paused /\ "CIRCUIT_BREAKER" \in alerts')
       /\ DailyLossFound
            => (circuitBreaker'.paused /\ "CIRCUIT_BREAKER" \in alerts')]_vars

\* C5: when both legs have settled and exactly one filled, the step that
\* decides the outcome pauses the breaker with the reason 'Asymmetric FOK
\* execution' and sends the ASYMMETRIC_EXECUTION alert before the call
\* suspends again, and the call then returns the asymmetric result with
\* circuitBreakerTriggered set.
C5_AsymmetricPauses ==
    /\ [][(epc = "placing" /\ epc' # "placing" /\ OneFilled(buyResult, sellResult)) =>
            /\ epc' = "alerting"
            /\ circuitBreaker'.paused
            /\ circuitBreaker'.pauseReason = Reason("Asymmetric FOK execution", 0)
            /\ alerts' = {"CIRCUIT_BREAKER", "ASYMMETRIC_EXECUTION"}]_vars
    /\ [][(epc = "alerting" /\ epc' # "alerting") =>
            /\ Returns
            /\ ExecutionState(executions'[Len(executions')].result) = "ASYMMETRIC"
            /\ executions'[Len(executions')].result.circuitBreakerTriggered]_vars
    /\ [](\A i \in Calls :
            OneFilled(executions[i].buyResult, executions[i].sellResult) =>
                ExecutionState(executions[i].result) = "ASYMMETRIC")

\* A call has returned ASYMMETRIC with only its sell leg filled, and the
\* breaker is paused for it.
C5_Witness ==
    /\ circuitBreaker.paused
    /\ circuitBreaker.pauseReason = Reason("Asymmetric FOK execution", 0)
    /\ \E i \in Calls :
          /\ ExecutionState(executions[i].result) = "ASYMMETRIC"
          /\ executions[i].buyResult = "rejected"
          /\ executions[i].sellResult = "fulfilled"

\* Call n has taken the asymmetric branch (returned or awaiting its alert).
Asymmetric(n) ==
    \/ n \in Calls /\ ExecutionState(executions[n].result) = "ASYMMETRIC"
    \/ n = ThisExec /\ epc = "alerting"

FilledLegs(i) == {p.leg : p \in {x \in positions : x.exec = i}}

\* C7: every returned call has exactly one of the four terminal outcomes, the
\* one its legs decide: BOTH_FILLED iff both legs filled, BOTH_REJECTED iff
\* orders were placed and neither filled, ASYMMETRIC iff exactly one filled,
\* ABORTED iff no order was placed; and a returned outcome never changes.
C7_OneOutcome ==
    /\ [](\A i \in Calls :
            LET st == ExecutionState(executions[i].result)
                placed == \E y \in orders : y.exec = i
            IN  /\ st \in {"BOTH_FILLED", "BOTH_REJECTED", "ASYMMETRIC", "ABORTED"}
                /\ (st = "BOTH_FILLED") <=> (FilledLegs(i) = {"buy", "sell"})
                /\ (st = "BOTH_REJECTED") <=> (placed /\ FilledLegs(i) = {})
                /\ (st = "ASYMMETRIC") <=> (Cardinality(FilledLegs(i)) = 1)
                /\ (st = "ABORTED") <=> ~placed)
    /\ [][\A i \in Calls : i \in DOMAIN executions' /\ executions'[i] = executions[i]]_vars

\* Two calls have returned with different outcomes that placed orders.
C7_Witness ==
    \E i, j \in Calls :
        /\ ExecutionState(executions[i].result) = "BOTH_FILLED"
        /\ ExecutionState(executions[j].result) = "ASYMMETRIC"

\* C8: when validateCurrentSpread answers a spread below netProfit less the
\* maximum slippage (currentSpread < netProfit * (1 - 0.01)), the call returns
\* ABORTED in that step, places no order and changes no position.
C8_PreFlightAbort ==
    /\ [][(epc = "validating" /\ epc' # "validating" /\ Returns) =>
            /\ ExecutionState(executions'[Len(executions')].result) = "ABORTED"
            /\ orders' = orders
            /\ positions' = positions]_vars
    /\ [](epc \in {"placing", "alerting"} =>
            currentSpread * 100 >= opp.netProfit * 99)
    /\ [](\A i \in Calls :
            (executions[i].ordersPlaced \/ \E y \in orders : y.exec = i) =>
                executions[i].currentSpread * 100 >= executions[i].opp.netProfit * 99)
    /\ [](\A i \in Calls :
            (executions[i].currentSpread * 100 < executions[i].opp.netProfit * 99) =>
                /\ ExecutionState(executions[i].result) = "ABORTED"
                /\ ~\E y \in orders : y.exec = i
                /\ ~\E p \in positions : p.exec = i)

\* A call has aborted on a spread one unit below the allowance.
C8_Witness ==
    \E i \in Calls :
        /\ executions[i].result.errors = "Spread deteriorated below threshold"
        /\ executions[i].currentSpread * 100 < executions[i].opp.netProfit * 99
        /\ (executions[i].currentSpread + 1) * 100 >= executions[i].opp.netProfit * 99

C10_SuccessResetsFailures ==
    [][(Returns /\ executions'[Len(executions')].result.success) =>
          circuitBreaker'.consecutiveFailures = 0]_vars

\* The pause reasons that do not come from an execution outcome.
OutsideReasons == {"Manual pause", "Connection lost to exchange"}

\* C11: a call that returns BOTH_REJECTED leaves the breaker as it found it
\* (paused flag, reason and both counters) and sends no alert; and while every
\* returned call is BOTH_REJECTED, a paused breaker was paused by the operator
\* or by the reconnector, never by the executions.
C11_BothRejectedBenign ==
    /\ [][(Returns /\ ExecutionState(executions'[Len(executions')].result) = "BOTH_REJECTED") =>
            /\ circuitBreaker' = circuitBreaker
            /\ alerts' = {}]_vars
    /\ []((/\ epc = "idle"
           /\ \A i \in Calls : ExecutionState(executions[i].result) = "BOTH_REJECTED"
           /\ circuitBreaker.paused)
            => circuitBreaker.pauseReason.text \in OutsideReasons)

\* MaxExecutions calls in a row have returned BOTH_REJECTED and the breaker is
\* still running with no failure counted.
C11_Witness ==
    /\ Len(executions) = MaxExecutions
    /\ \A i \in Calls : ExecutionState(executions[i].result) = "BOTH_REJECTED"
    /\ ~circuitBreaker.paused
    /\ circuitBreaker.consecutiveFailures = 0

C13_ShortCircuit ==
    (riskCheck.checked /\ ~riskCheck.approved) => Len(riskCheck.reasons) = 1

\* C14: every check made while the daily PnL is beyond the daily-loss limit is
\* rejected with the daily-loss reason, whatever the opportunity and quantity,
\* and no execution is started on such a check; a check made with the PnL
\* inside the limit is not rejected for it.
C14_DailyLossCap ==
    /\ [](riskCheck.checked =>
            /\ (riskCheck.dailyPnL < -(dailyLossLimit * Dollar)) => ~riskCheck.approved
            /\ (riskCheck.dailyPnL < -(dailyLossLimit * Dollar)) <=>
                 (\E i \in DOMAIN riskCheck.reasons :
                      riskCheck.reasons[i] = "Daily loss limit reached"))
    /\ [][(riskCheck.checked /\ epc = "idle" /\ epc' = "validating") =>
            riskCheck.dailyPnL >= -(dailyLossLimit * Dollar)]_vars

\* After a trade, a check made with the PnL one unit beyond the limit is
\* rejected for the daily loss alone.
C14_Witness ==
    /\ Len(executions) >= 1
    /\ riskCheck.checked
    /\ riskCheck.dailyPnL = -(dailyLossLimit * Dollar) - 1
    /\ ~riskCheck.approved
    /\ riskCheck.reasons = <<"Daily loss limit reached">>

\* C15: every opportunity detectArbitrage returns, in either direction, has
\* netProfit = grossSpread - estimatedFees strictly above the minimum-profit
\* threshold (so also above that fraction of its entry price).
C15_ProfitFloor ==
    \A o \in detected.opportunity :
        /\ o.grossSpread = o.sellPrice - o.buyPrice
        /\ o.netProfit = o.grossSpread - o.estimatedFees
        /\ o.netProfit > (minProfitThreshold * Dollar) \div 100
        /\ o.netProfit * 100 > minProfitThreshold * o.buyPrice

\* The detector has returned a buy-on-Kalshi opportunity (buy at 0.40, sell
\* on Polymarket at 0.50, fees 0.01).
C15_Witness ==
    /\ detected.called
    /\ \E o \in detected.opportunity : o.buyPlatform = "kalshi" /\ o.netProfit = 900

\* C16: when both directions qualify on the same pair of books, the detector
\* returns exactly one opportunity, the one with the higher netProfit.
C16_BestDirection ==
    LET pb == detected.polyBook
        kb == detected.kalshiBook
    IN  (/\ detected.called
         /\ Emits("polymarket", polyYesAsk(pb), "kalshi", kalshiYesBid(kb))
         /\ Emits("kalshi", kalshiYesAsk(kb), "polymarket", polyYesBid(pb)))
        => /\ Cardinality(detected.opportunity) = 1
           /\ \A o \in detected.opportunity :
                 /\ o.netProfit >= Candidate("E1", "polymarket", polyYesAsk(pb),
                                             "kalshi", kalshiYesBid(kb)).netProfit
                 /\ o.netProfit >= Candidate("E1", "kalshi", kalshiYesAsk(kb),
                                             "polymarket", polyYesBid(pb)).netProfit

\* The market of the model with the given condition id or ticker.
MarketById(id) == CHOOSE m \in PolymarketMarkets \cup KalshiMarkets : m.id = id

\* The match score of the two questions a mapping pairs.
MatchScoreOf(mapping) ==
    calculateMatchScore(MarketById(mapping.polymarketConditionId),
                        MarketById(mapping.kalshiTicker)).overall

\* The match score is in the review tier [0.60, 0.75).
InReviewTier(overall) == RGeq(overall, Pct(60)) /\ RLess(overall, Pct(75))

\* C17: review-tier mappings never trade automatically: whatever calls of
\* findKalshiEquivalent, addManualMapping, removeMapping and loadMappings came
\* before, no mapping whose questions score in [0.60, 0.75) is both returned
\* by getActiveMappings() and accepted by canTradeOnMapping().
C17_ReviewTierNeverTrades ==
    \A mapping \in getActiveMappings :
        InReviewTier(MatchScoreOf(mapping)) => ~canTradeOnMapping(mapping)

\* The higher of two scores.
Highest(a, b) == IF RLess(a, b) THEN b ELSE a

\* The highest overall among the candidates (0 for an empty list).
RECURSIVE HighestOverall(_, _, _)
HighestOverall(polymarket, kalshiMarkets, i) ==
    IF i > Len(kalshiMarkets) THEN Zero
    ELSE Highest(calculateMatchScore(polymarket, kalshiMarkets[i]).overall,
                 HighestOverall(polymarket, kalshiMarkets, i + 1))

\* C18: tiering is a partition by the two thresholds: a best score >= 0.75
\* gives shouldTrade = true and needsReview = false, a best score in
\* [0.60, 0.75) gives needsReview = true and shouldTrade = false, and a best
\* score < 0.60 yields no match, and findKalshiEquivalent's selection then
\* has no candidate to create a mapping from; the mapping it creates
\* otherwise is flagged for review exactly in the middle tier.
C18_TieringPartition ==
    matchResult.called =>
        \E best \in {HighestOverall(matchResult.polymarket, matchResult.kalshiMarkets, 1)} :
        \E created \in {{createMapping(matchResult.polymarket, b.kalshi, b.score.overall,
                                       b.score.method) :
                            b \in BestAbove(matchResult.polymarket,
                                            matchResult.kalshiMarkets, 1, {})}} :
            /\ RGeq(best, Pct(75)) =>
                /\ matchResult.result # {}
                /\ \A r \in matchResult.result : r.matched /\ r.shouldTrade /\ ~r.needsReview
                /\ created # {}
                /\ \A m \in created : ~m.needsReview
            /\ InReviewTier(best) =>
                /\ matchResult.result # {}
                /\ \A r \in matchResult.result : r.matched /\ r.needsReview /\ ~r.shouldTrade
                /\ created # {}
                /\ \A m \in created : m.needsReview
            /\ RLess(best, Pct(60)) =>
                /\ matchResult.result = {}
                /\ created = {}

\* A best score in the review tier has been classified.
C18_Witness ==
    /\ matchResult.called
    /\ InReviewTier(HighestOverall(matchResult.polymarket, matchResult.kalshiMarkets, 1))
    /\ Len(matchResult.kalshiMarkets) = MaxCandidates
    /\ \E r \in matchResult.result : r.needsReview

\* exact > keyword > token > fuzzy (> combined)
MethodRank(method) ==
    CASE method = "exact" -> 4
      [] method = "keyword" -> 3
      [] method = "token" -> 2
      [] method = "fuzzy" -> 1
      [] OTHER -> 0

\* Candidate i is the one the selection rule prefers: no candidate has a
\* higher overall, none with the same overall has a preferred method, and
\* none with the same overall and method comes earlier in the list.
Preferred(polymarket, kalshiMarkets, i) ==
    \A j \in DOMAIN kalshiMarkets :
        \E mine \in {calculateMatchScore(polymarket, kalshiMarkets[i])} :
        \E other \in {calculateMatchScore(polymarket, kalshiMarkets[j])} :
            \/ RLess(other.overall, mine.overall)
            \/ /\ other.overall = mine.overall
               /\ \/ MethodRank(other.method) < MethodRank(mine.method)
                  \/ MethodRank(other.method) = MethodRank(mine.method) /\ i <= j

\* C19: best-match selection: for every question and every candidate list,
\* the result is the candidate with the highest overall; among candidates
\* with equal overall the one with the preferred method (exact > keyword >
\* token > fuzzy), and among those the one with the lowest index.
C19_BestMatchSelection ==
    matchResult.called =>
        \A r \in matchResult.result :
            \E i \in DOMAIN matchResult.kalshiMarkets :
                /\ matchResult.kalshiMarkets[i].id = r.kalshiTicker
                /\ Preferred(matchResult.polymarket, matchResult.kalshiMarkets, i)

\* C20: exact match: for every pair of titles that are equal after
\* normalization (lowercase, trimmed), whatever their resolution dates and
\* categories, calculateMatchScore returns overall = 1.0 and method = exact.
C20_ExactMatch ==
    (/\ matchScore.called
     /\ trim(toLowerCase(matchScore.polymarket.title)) =
            trim(toLowerCase(matchScore.kalshi.title))) =>
        /\ matchScore.score.overall = One
        /\ matchScore.score.method = "exact"

\* Two titles that differ in case and surrounding space only, with resolution
\* dates more than 30 days apart and different categories, have been scored.
C20_Witness ==
    /\ matchScore.called
    /\ matchScore.polymarket.title # matchScore.kalshi.title
    /\ trim(toLowerCase(matchScore.polymarket.title)) =
           trim(toLowerCase(matchScore.kalshi.title))
    /\ matchScore.polymarket.category # matchScore.kalshi.category
    /\ dateScore(matchScore.polymarket.date, matchScore.kalshi.date) = Zero
    /\ matchScore.score.method = "exact"

\* C23: mapping round-trip: a mapping that saveMapping stored and loadMappings
\* reloads has the confidence, the method and the outcome mapping it was
\* saved with (a cached mapping is one that was saved, or loaded before).
C23_MappingRoundTrip ==
    [][(mpc = "loading" /\ mpc' = "idle") =>
          \A id \in DOMAIN cachedMappings \cap DOMAIN cachedMappings' :
              cachedMappings'[id].kalshiTicker = cachedMappings[id].kalshiTicker =>
                  /\ cachedMappings'[id].matchConfidence = cachedMappings[id].matchConfidence
                  /\ cachedMappings'[id].matchMethod = cachedMappings[id].matchMethod
                  /\ cachedMappings'[id].outcomeMapping = cachedMappings[id].outcomeMapping]_vars

\* C24: at most one active mapping per Polymarket question: whatever calls of
\* findKalshiEquivalent, addManualMapping, removeMapping and loadMappings came
\* before, the store holds at most one active mapping for each
\* polymarketConditionId.
C24_OneActiveMappingPerQuestion ==
    \A r1, r2 \in eventMappings :
        (/\ r1.is_active
         /\ r2.is_active
         /\ r1.polymarket_condition_id = r2.polymarket_condition_id) => r1 = r2

\* The outcome mapping pairs each outcome of the Polymarket question (Yes, No)
\* and each side of the Kalshi question (yes, no) exactly once.
CoversEachOutcomeOnce(outcomeMapping) ==
    /\ \A outcome \in {"Yes", "No"} :
          Cardinality({i \in DOMAIN outcomeMapping :
                          outcomeMapping[i].polymarketOutcome = outcome}) = 1
    /\ \A side \in {"yes", "no"} :
          Cardinality({i \in DOMAIN outcomeMapping :
                          outcomeMapping[i].kalshiSide = side}) = 1
    /\ Len(outcomeMapping) = 2

\* C25: outcome correspondence on the execution path: every mapping returned
\* by getActiveMappings(), created by matching, added manually or loaded from
\* the database, has an outcome mapping that covers each outcome (Yes and No)
\* of both questions exactly once.
C25_OutcomesCovered ==
    \A mapping \in getActiveMappings : CoversEachOutcomeOnce(mapping.outcomeMapping)

\* C21: end-to-end scenario: Example 1 of the source, "Will Donald Trump win
\* the 2024 Presidential Election?" against "Will the Republican candidate
\* win the 2024 presidential election?" with equal resolution dates, scores
\* overall about 0.76 (0.755 to 0.765) and is in the auto-approve tier.
C21_Example1AutoApproved ==
    (/\ matchScore.called
     /\ <<matchScore.polymarket, matchScore.kalshi>> = Example1) =>
        /\ RGeq(matchScore.score.overall, Pct(75))
        /\ RGeq(matchScore.score.overall, Rat(755, 1000))
        /\ RGeq(Rat(765, 1000), matchScore.score.overall)

\* Pairs of words that name opposite outcomes.
OutcomeWords ==
    {<<<<"o", "v", "e", "r", "t", "u", "r", "n">>, <<"u", "p", "h", "o", "l", "d">>>>, <<<<"w", "i", "n">>, <<"l", "o", "s", "e">>>>, <<<<"a", "b", "o", "v", "e">>, <<"b", "e", "l", "o", "w">>>>}

\* title2 is title1 with one occurrence of word1 replaced by word2.
Replaced(title1, title2, word1, word2) ==
    \E i \in 1..Len(title1) :
        /\ i + Len(word1) - 1 <= Len(title1)
        /\ SubSeq(title1, i, i + Len(word1) - 1) = word1
        /\ title2 = SubSeq(title1, 1, i - 1) \o word2
                        \o SubSeq(title1, i + Len(word1), Len(title1))

\* The two titles are identical except for one outcome word.
OppositeOutcome(title1, title2) ==
    \E words \in OutcomeWords :
        \/ Replaced(title1, title2, words[1], words[2])
        \/ Replaced(title1, title2, words[2], words[1])

\* C22: opposite-outcome pairs are not auto-approved: for two titles that are
\* identical except for one outcome word (overturn/uphold, win/lose,
\* above/below), with equal resolution dates, shouldTrade is false.
C22_OppositeNotAutoApproved ==
    (/\ matchScore.called
     /\ OppositeOutcome(matchScore.polymarket.title, matchScore.kalshi.title)
     /\ matchScore.polymarket.date = matchScore.kalshi.date) =>
        ~MatchResult(matchScore.kalshi, matchScore.score).shouldTrade

\* The number of days between the two resolution dates of the last call.
DaysApart ==
    IF matchScore.polymarket.date > matchScore.kalshi.date
    THEN matchScore.polymarket.date - matchScore.kalshi.date
    ELSE matchScore.kalshi.date - matchScore.polymarket.date

\* C29: date score: 1.0 when the resolution dates are at most 7 days apart,
\* 0 when they are more than 30 days apart, 0.7 + 0.3 * (30 - diff) / 23 for
\* a difference strictly between 7 and 30 days, whichever date is the later.
C29_DateScore ==
    (/\ matchScore.called
     /\ matchScore.score.method # "exact") =>
        /\ DaysApart <= 7 => matchScore.score.date = One
        /\ DaysApart > 30 => matchScore.score.date = Zero
        /\ (DaysApart > 7 /\ DaysApart < 30) =>
              matchScore.score.date =
                  RAdd(Pct(70), RMul(Pct(30), Rat(30 - DaysApart, 23)))

\* The Polymarket question resolves 11 days after the Kalshi question, and
\* the date score is strictly between 0.7 and 1.
C29_Witness ==
    /\ matchScore.called
    /\ matchScore.score.method # "exact"
    /\ matchScore.polymarket.date = matchScore.kalshi.date + 11
    /\ RLess(Pct(70), matchScore.score.date)
    /\ RLess(matchScore.score.date, One)

\* The score lies in [0, 1].
InUnitInterval(score) == RGeq(score, Zero) /\ RGeq(One, score)

\* C30: score range: each component score (keyword, token, fuzzy, date,
\* category) lies in [0, 1] and so does the weighted overall, and so does the
\* confidence of the mapping created from the score.
C30_ScoreRange ==
    matchScore.called =>
        /\ \A component \in {"keyword", "token", "fuzzy", "date", "category", "overall"} :
              InUnitInterval(matchScore.score[component])
        /\ InUnitInterval(createMapping(matchScore.polymarket, matchScore.kalshi,
                                        matchScore.score.overall,
                                        matchScore.score.method).matchConfidence)

\* A pair that is not an exact match has been scored with two components at
\* their upper end and the fuzzy score strictly inside the interval.
C30_Witness ==
    /\ matchScore.called
    /\ matchScore.score.method # "exact"
    /\ matchScore.score.keyword = One
    /\ matchScore.score.token = One
    /\ RLess(Zero, matchScore.score.fuzzy)
    /\ RLess(matchScore.score.fuzzy, One)
    /\ RLess(Pct(95), matchScore.score.overall)

\* C27: token score symmetry: tokenOverlapScore(a, b) equals
\* tokenOverlapScore(b, a) for every pair of texts; it is 1.0 when both token
\* sets are empty and 0 when exactly one is.
C27_TokenScoreSymmetric ==
    (textScore.called /\ textScore.function = "tokenOverlapScore") =>
        /\ textScore.score = textScore.swapped
        /\ (tokenize(textScore.text1) = {} /\ tokenize(textScore.text2) = {}) =>
              textScore.score = One
        /\ ((tokenize(textScore.text1) = {}) # (tokenize(textScore.text2) = {})) =>
              textScore.score = Zero

\* Two texts with token sets of different sizes that share a token.
C27_Witness ==
    /\ textScore.called
    /\ textScore.function = "tokenOverlapScore"
    /\ Cardinality(tokenize(textScore.text1)) < Cardinality(tokenize(textScore.text2))
    /\ RLess(Zero, textScore.score)
    /\ RLess(textScore.score, One)

\* The keyword groups calculateMatchScore passes.
AllGroups == POLITICAL_KEYWORDS \o CRYPTO_KEYWORDS

\* The weight a group counts with in a text: its weight when one of its
\* synonyms is a case-insensitive substring of the text, otherwise 0.
WeightIn(text, g) ==
    IF \E k \in DOMAIN AllGroups[g].synonyms :
           includes(toLowerCase(text), toLowerCase(AllGroups[g].synonyms[k]))
    THEN AllGroups[g].weight ELSE 0

\* C28: keyword score formula: the score is the sum of min(weightA, weightB)
\* over the groups present in both texts divided by the sum of
\* max(weightA, weightB) over the groups present in either, and 0 when
\* neither text matches any group.
C28_KeywordScoreFormula ==
    (textScore.called /\ textScore.function = "keywordOverlapScore") =>
        LET groups == DOMAIN AllGroups
            inBoth == {g \in groups : WeightIn(textScore.text1, g) > 0
                                        /\ WeightIn(textScore.text2, g) > 0}
            inEither == {g \in groups : WeightIn(textScore.text1, g) > 0
                                          \/ WeightIn(textScore.text2, g) > 0}
            least == [g \in groups |->
                         Min(WeightIn(textScore.text1, g), WeightIn(textScore.text2, g))]
            most == [g \in groups |->
                        -Min(-WeightIn(textScore.text1, g), -WeightIn(textScore.text2, g))]
        IN  IF inEither = {} THEN textScore.score = Zero
            ELSE textScore.score = Rat(SumOf(least, inBoth), SumOf(most, inEither))

\* A text in capitals and a text in small letters share a keyword group, and
\* one of them has a group the other lacks.
C28_Witness ==
    /\ textScore.called
    /\ textScore.function = "keywordOverlapScore"
    /\ textScore.text1 # toLowerCase(textScore.text1)
    /\ textScore.text2 = toLowerCase(textScore.text2)
    /\ RLess(Zero, textScore.score)
    /\ RLess(textScore.score, One)

PausingTypes == {"ASYMMETRIC_EXECUTION", "DAILY_LOSS_LIMIT", "CONNECTION_LOST"}

\* C38: no spurious pause: a RUNNING breaker becomes paused only by a pause()
\* call, by a failure of type ASYMMETRIC_EXECUTION, DAILY_LOSS_LIMIT or
\* CONNECTION_LOST, or by the failure that completes maxConsecutiveFailures
\* failures in a row; the failures in a row are counted from 0 again after
\* every recordSuccess and every resume, and by nothing but recordFailure.
C38_NoSpuriousPause ==
    /\ [][(~circuitBreaker.paused /\ circuitBreaker'.paused) =>
            \/ \E reason \in ManualReasons : Pause(reason)
            \/ \E type \in PausingTypes : RecordFailure(type)
            \/ SleepEnds
            \/ /\ \E type \in FailureType \ PausingTypes : RecordFailure(type)
               /\ circuitBreaker.consecutiveFailures + 1 = maxConsecutiveFailures]_vars
    /\ [][(RecordSuccess \/ Resume) => circuitBreaker'.consecutiveFailures = 0]_vars
    /\ [][circuitBreaker'.consecutiveFailures > circuitBreaker.consecutiveFailures =>
            /\ circuitBreaker'.consecutiveFailures = circuitBreaker.consecutiveFailures + 1
            /\ (\E type \in FailureType : RecordFailure(type)) \/ SleepEnds]_vars

\* The breaker still RUNNING with one failure short of the count in a row and
\* no alert sent.
C38_Witness ==
    /\ ~circuitBreaker.paused
    /\ circuitBreaker.pausedAt = NULL
    /\ circuitBreaker.consecutiveFailures = maxConsecutiveFailures - 1
    /\ "CIRCUIT_BREAKER" \notin alerts

\* The connection attempts the connect() run in progress has made: the failed
\* ones and the one in flight.
AttemptsMade == attempts + (IF rpc = "connecting" THEN 1 ELSE 0)

\* C34: bounded reconnection: a connect() run makes at most maxAttempts
\* connection attempts; when the last of them has failed the run stops
\* retrying, records a CONNECTION_LOST failure and the breaker is PAUSED; when
\* an attempt succeeds the attempt counter is 0 again and the breaker is left
\* as it was.
C34_BoundedReconnection ==
    /\ [](AttemptsMade <= maxAttempts)
    /\ [][(rpc = "sleeping" /\ attempts = maxAttempts /\ rpc' # "sleeping") =>
            /\ rpc' = "idle"
            /\ ~connected'
            /\ circuitBreaker'.paused
            /\ circuitBreaker'.pauseReason = Reason("Connection lost to exchange", 0)
            /\ circuitBreaker'.consecutiveFailures = circuitBreaker.consecutiveFailures + 1]_vars
    /\ [][(rpc = "sleeping" /\ attempts < maxAttempts /\ rpc' # "sleeping") =>
            rpc' = "connecting" /\ circuitBreaker' = circuitBreaker]_vars
    /\ [][EstablishSucceeds =>
            connected' /\ attempts' = 0 /\ circuitBreaker' = circuitBreaker]_vars

\* A run has given up after maxAttempts failed attempts: the breaker is paused
\* for the lost connection and nothing is connecting.
C34_Witness ==
    /\ attempts = maxAttempts
    /\ rpc = "idle"
    /\ ~connected
    /\ circuitBreaker.paused
    /\ circuitBreaker.pauseReason = Reason("Connection lost to exchange", 0)

\* A step of the opportunity detector or of the risk gate.
DetectorOrGateStep ==
    \/ \E books \in LoopBooks : DetectArbitrage(books[1], books[2])
    \/ \E o \in Opportunities : \E q \in Quantities(o) : \E pnl \in DailyPnLValues :
          ValidateRisk(o, q, pnl)

\* A step of the execution coordinator.
CoordinatorStep ==
    \/ ExecuteArbitrage
    \/ \E spread \in Spreads(opp) : SpreadValidated(spread)
    \/ BuyLegSettles
    \/ SellLegSettles
    \/ Resolve

\* C33: single-writer frame: detectArbitrage and validateRisk leave the
\* positions, the orders placed and the circuit-breaker state unchanged; the
\* positions change only in a step of the execution coordinator and the
\* breaker state only in a step of the coordinator or a call of the breaker's
\* pause() or resume().
C33_SingleWriter ==
    /\ [][DetectorOrGateStep =>
            /\ positions' = positions
            /\ orders' = orders
            /\ circuitBreaker' = circuitBreaker]_vars
    /\ [][positions' # positions => CoordinatorStep]_vars
    /\ [][circuitBreaker' # circuitBreaker =>
            \/ CoordinatorStep
            \/ \E reason \in ManualReasons : Pause(reason)
            \/ Resume]_vars

\* The risk gate has found a daily loss beyond the limit while positions are
\* held, and the breaker is still RUNNING.
C33_Witness ==
    /\ riskCheck.checked
    /\ ~riskCheck.approved
    /\ \E i \in DOMAIN riskCheck.reasons : riskCheck.reasons[i] = "Daily loss limit reached"
    /\ positions # {}
    /\ detected.called
    /\ ~circuitBreaker.paused

\* C32: execution always terminates: once the FOK orders are placed, the wait
\* for the two legs ends, also when a venue never answers, and the execution
\* is then BOTH_FILLED, BOTH_REJECTED or ASYMMETRIC.
C32_ExecutionTerminates ==
    (epc = "placing") ~>
        \/ epc = "alerting"
        \/ /\ epc = "idle"
           /\ Len(executions) > 0
           /\ ExecutionState(executions[Len(executions)].result)
                 \in {"BOTH_FILLED", "BOTH_REJECTED", "ASYMMETRIC"}

\* The second execution has returned with both legs counted as rejected, the
\* orders placed and no position opened by it.
C32_Witness ==
    /\ Len(executions) = 2
    /\ epc = "idle"
    /\ executions[2].ordersPlaced
    /\ ExecutionState(executions[2].result) = "BOTH_REJECTED"
    /\ \A p \in positions : p.exec # 2

\* The question and ticker of each mapping getActiveMappings() returns.
ActivePairs == {<<m.polymarketConditionId, m.kalshiTicker>> : m \in getActiveMappings}

\* C40: cache and store agree on the active set: whenever no call is in
\* flight, the mappings getActiveMappings() returns are the mappings of the
\* same questions and tickers that a fresh loadMappings() would load from the
\* table.
C40_CacheAgreesWithStore ==
    mpc = "idle" =>
        \A last \in LastRows :
            ActivePairs = {<<r.polymarket_condition_id, r.kalshi_ticker>> : r \in last}

\* C37: checkAndExecute opens a position only when at least
\* minSignalConfidence of the three indicators agree on one direction, on the
\* side of that direction (UP buys YES, DOWN buys NO), never on NEUTRAL.
C37_TradesNeedAgreement ==
    \A slug \in DOMAIN cryptoPositions :
        LET position == cryptoPositions[slug]
            s == position.signal
        IN  /\ s.direction \in {"UP", "DOWN"}
            /\ Votes(s.direction, s.indicators) >= minSignalConfidence
            /\ position.side = (IF s.direction = "UP" THEN "YES" ELSE "NO")

\* Positions were opened on a DOWN signal of two votes and on an UP signal of
\* three.
C37_Witness ==
    /\ \E slug \in DOMAIN cryptoPositions :
          /\ cryptoPositions[slug].signal.direction = "DOWN"
          /\ cryptoPositions[slug].signal.confidence = 2
          /\ cryptoPositions[slug].side = "NO"
    /\ \E slug \in DOMAIN cryptoPositions :
          /\ cryptoPositions[slug].signal.direction = "UP"
          /\ cryptoPositions[slug].signal.confidence = 3
          /\ cryptoPositions[slug].side = "YES"

\* C35: every position opened by checkAndExecute has an amount of at most
\* maxPositionSize (5%) of the capital available when the trade is opened, for
\* every signal confidence.
C35_PerTradeSizeCap ==
    [][Len(tradeHistory') > Len(tradeHistory)
          => tradeHistory'[Len(tradeHistory')].amount * 100 <= capital * maxPositionSize]_vars

\* C31: the loop starts the next check-and-execute cycle only after the
\* previous one has fully resolved, also when that cycle failed with an error.
C31_CyclesNeverOverlap == [][cycles' > cycles => cpc = "idle"]_vars

\* A cycle has started after a cycle that ended in the catch block.
C31_Witness == cycles > 1 /\ cpc = "signal" /\ logged = "Error in trading loop"

\* C36: the number of OPEN positions never exceeds maxConcurrentPositions, and
\* a trade is refused on position-limit grounds only when that many positions
\* are OPEN.
C36_LimitCountsOpen ==
    [][/\ Cardinality(OpenSlugs) <= maxConcurrentPositions
       /\ (cpc = "scan" /\ logged' = "Max concurrent positions reached")
              => Cardinality(OpenSlugs) >= maxConcurrentPositions]_vars

\* C39: executeTrade never replaces an OPEN entry of the positions map.
C39_OpenNeverOverwritten ==
    [][\A slug \in OpenSlugs :
          cryptoPositions'[slug].timestamp = cryptoPositions[slug].timestamp]_vars

====
